---------------------------- MODULE Spec2Model ----------------------------
(***************************************************************************)
(* Delivery pipeline of the error-monitor SDK: BatchQueue (batch-queue),   *)
(* OfflineCache (offline-cache) and their wiring in ErrorMonitor.          *)
(*                                                                         *)
(* Reports are identified by the natural numbers 1..MaxEvents; every       *)
(* report handed to the pipeline is a fresh one (each carries its own      *)
(* eventId).  A CachedReport object is identified by the report it wraps:  *)
(* cacheQueue and the snapshot of a retry pass hold references, and        *)
(* retryCount is the field of the referenced object, so a pass that still  *)
(* holds a reference to an object removed from cacheQueue reads and        *)
(* writes the same counter.                                                *)
(***************************************************************************)
EXTENDS Integers, Sequences, FiniteSets, TLC

\* ------------------------------------------------------------- bounds ----
\* Number of distinct reports the environment produces.
MaxEvents == 3
\* Number of OfflineCache.flush() invocations that may be suspended at once.
MaxPasses == 2
\* Largest maxCacheSize a constructor call is given.
MaxCacheSizeCfg == 2
\* batchSize the BatchQueue is constructed with.
BatchSizeCfg == 3
\* Largest capacity a RingBuffer is made with.
MaxCapacity == 3
\* Number of items pushed on a RingBuffer.
MaxPushes == 8
\* Sampling rates and the values of Math.random() are multiples of 1/RateScale.
RateScale == 2
\* Number of capture() calls in a behaviour of the capture path.
MaxCaptures == 2
\* Number of init() calls on an ErrorMonitorWeb.
MaxInits == 2

\* Largest delay (ms) a BatchQueue is constructed with.
MaxDelayCfg == 1
\* Largest maxRetries a pipeline is configured with.
MaxRetriesCfg == 1

\* maxChecks a BlankScreenDetector is constructed with.
MaxChecksCfg == 2
\* Largest number of start() calls on one BlankScreenDetector.
MaxStarts == 3

\* --------------------------------------------------- program constants ----
\* REPORTING.DEFAULT_DELAY, REPORTING.DEFAULT_BATCH_SIZE
DefaultDelay == 1000
DefaultBatchSize == 10
\* `config.maxCacheSize || 100` in OfflineCache's constructor
DefaultMaxCacheSize == 100
\* `if (cachedReport.retryCount > 3)` in OfflineCache.flush
MaxRetries == 3
\* maxCacheSize ErrorMonitor passes to its OfflineCache
MonitorMaxCacheSize == 100

Ids == 1..MaxEvents
PassIds == 1..MaxPasses
\* localStorage.getItem returns null when the key was never written
NoEntry == [present |-> FALSE, items |-> <<>>]

VARIABLES
  \* OfflineCache fields
  isOnline,      \* this.isOnline
  cacheQueue,    \* this.cacheQueue: sequence of references to CachedReport objects
  retryCount,    \* retryCount field of each CachedReport object
  config,        \* this.config: [maxCacheSize, enabled]
  peer,          \* the cacheQueue of another live OfflineCache that was given
                 \* the same storageKey (a second tab of the application)
  storage,       \* localStorage entry under config.storageKey
  storageUp,     \* localStorage works on this page (FALSE: absent, or it throws)
  passes,        \* suspended flush() invocations: [snap, idx], idx = 0 when free
  signal,        \* the last connectivity input the instance was given
  fresh,         \* no method or listener of the instance has run since its
                 \* constructor returned
  \* BatchQueue fields
  queue,         \* this.queue (reports)
  timerId,       \* this.timerId (0 is null)
  bqConfig,      \* this.config: [batchSize, delay, enabled]
  given,         \* the options the owner gave the constructors
  timers,        \* handles of the timeouts pending in the host
  \* ErrorMonitor wiring
  hasBatchQueue, \* the constructor made a BatchQueue (config.report is set)
  transport,     \* what the sender is: "sender" (any function), or what the
                 \* monitor's senders use: "beacon", "fetch", "custom"
  destroyed,     \* destroy() was called: the owner has let go of the instances
  \* RingBuffer fields (the monitor's breadcrumbs)
  buffer,        \* this.buffer: index 0..capacity-1, Undefined in an unused slot
  capacity,      \* this.capacity
  head,          \* this.head
  tail,          \* this.tail
  size,          \* this._size
  snapshot,      \* an array toArray() returned earlier, held by its caller
  crumbData,     \* the breadcrumb objects: what each one's fields hold now
  records,       \* the breadcrumbs arrays of the records emitted so far, as
                 \* arrays of references to breadcrumb objects
  \* observations
  nextId,        \* next fresh report
  handed,        \* reports passed to OfflineCache.send
  wire,          \* reports handed to Transport by the last step
  delivered,     \* reports for which Transport succeeded
  evicted,       \* reports shifted out of cacheQueue by cache()
  dropped,       \* reports that took the "Max retry count exceeded" branch
  sentBatches,   \* batches handed to the BatchQueue sender, in order
  raised,        \* the last step's call ended with an exception for its caller
  ringLog,       \* items pushed on the ring since it was made or cleared
  \* ErrorMonitor fields read by capture()
  monConfig,     \* this.config: enabled, filter, errorSampleRate, userId, tags
  isInitialized, \* this.isInitialized
  plugins,       \* this.plugins, in registration order
  setups,        \* how many times each plugin's setup() was called
  web,           \* ErrorMonitorWeb: its eventListeners and originalFetch, what
                 \* window.fetch is, and the monitor's fetch calls in flight
  captured       \* the last step's capture() call: its arguments, the state it
                 \* read, the hook calls it made and the record it produced

storeVars == <<isOnline, cacheQueue, retryCount, config, peer, storage, storageUp, passes,
              signal, fresh>>
batchVars == <<queue, timerId, bqConfig, given, timers>>
wiringVars == <<hasBatchQueue, transport, destroyed>>
ringFields == <<buffer, capacity, head, tail, size, snapshot, ringLog>>
ringVars == <<ringFields, crumbData, records>>
obsStore == <<handed, delivered, evicted, dropped>>
captureVars == <<monConfig, isInitialized, plugins, setups, web, captured>>
vars == <<storeVars, batchVars, wiringVars, ringVars, obsStore, nextId, wire,
         sentBatches, raised, captureVars>>

\* ------------------------------------------------------------ helpers ----
Range(s) == {s[i] : i \in 1..Len(s)}

\* Array.prototype.indexOf: first index holding x, 0 when absent (-1 in JS)
IndexOf(s, x) ==
  IF x \in Range(s) THEN CHOOSE i \in 1..Len(s) : s[i] = x /\ \A j \in 1..(i-1) : s[j] # x
  ELSE 0

\* `index = arr.indexOf(x); if (index > -1) arr.splice(index, 1)`
RemoveRef(s, x) ==
  LET i == IndexOf(s, x)
  IN IF i = 0 THEN s
     ELSE [k \in 1..(Len(s)-1) |-> IF k < i THEN s[k] ELSE s[k+1]]

NoPass == [snap |-> <<>>, idx |-> 0]
Active(p) == passes[p].idx > 0
\* the cachedReport whose `await this.sender(...)` pass p is suspended on
Cur(p) == passes[p].snap[passes[p].idx]
NoActivePass == \A p \in PassIds : ~Active(p)

\* A CachedReport object no longer referenced by the queue or by a suspended
\* flush() is garbage; its counter is cleared so that it does not tell states
\* apart.
Referenced(q, ps) == Range(q) \cup UNION {Range(ps[p].snap) : p \in PassIds}
Collect(rc, q, ps) == [x \in Ids |-> IF x \in Referenced(q, ps) THEN rc[x] ELSE 0]

\* --------------------------------------------------- persisted format ----
\* JSON.stringify(this.cacheQueue): the values of the referenced objects
Serialize(q, rc) == [i \in 1..Len(q) |-> [report |-> q[i], retryCount |-> rc[q[i]]]]
\* Faulty variant of LoadedRetryCount: the counters start again at 0.
LoadedRetryCountReset(items) == [x \in Ids |-> 0]

\* JSON.parse(cached): fresh objects holding the stored values
LoadedQueue(items) == [i \in 1..Len(items) |-> items[i].report]
LoadedRetryCount(items) ==
  [x \in Ids |-> IF \E i \in 1..Len(items) : items[i].report = x
                 THEN items[CHOOSE i \in 1..Len(items) : items[i].report = x].retryCount
                 ELSE 0]

\* Faulty variant of SaveToStorage: nothing is written.
SaveToStorageNever(st, q, rc, up) == st

\* saveToStorage(): returns at once without localStorage, and setItem runs
\* inside try/catch: a failed write leaves the entry as it was
SaveToStorage(st, q, rc, up) ==
  IF up THEN [present |-> TRUE, items |-> Serialize(q, rc)] ELSE st


\* ------------------------------------------------------- OfflineCache ----
\* Faulty variant of CacheQueueAfterCache: the size limit is not applied.
CacheQueueNoShift(q, x, maxCacheSize) == Append(q, x)

\* cache(): `this.cacheQueue.push(cachedReport)` then one `shift()` when the
\* length exceeds maxCacheSize
CacheQueueAfterCache(q, x, maxCacheSize) ==
  LET pushed == Append(q, x)
  IN IF Len(pushed) > maxCacheSize THEN Tail(pushed) ELSE pushed

\* the report cache() shifts out, as a set (empty when nothing is shifted)
ShiftedByCache(q, x, maxCacheSize) ==
  IF Len(Append(q, x)) > maxCacheSize THEN {Head(Append(q, x))} ELSE {}

\* Faulty variant of ReportsToRetry: the copy is taken newest first.
ReportsToRetryNewestFirst(q) == [i \in 1..Len(q) |-> q[Len(q) + 1 - i]]

\* flush(): `const reportsToRetry = [...this.cacheQueue]`
ReportsToRetry(q) == q

\* flush(): `if (cachedReport.retryCount > 3)`
RetryLimitExceeded(n) == n > MaxRetries

\* cache(report)
Cache(x) ==
  IF ~config.enabled
  THEN UNCHANGED <<cacheQueue, retryCount, storage, evicted>>
  ELSE LET q2 == CacheQueueAfterCache(cacheQueue, x, config.maxCacheSize)
           rc2 == [retryCount EXCEPT ![x] = 0]
       IN /\ cacheQueue' = q2
          /\ retryCount' = Collect(rc2, q2, passes)
          /\ evicted' = evicted \cup ShiftedByCache(cacheQueue, x, config.maxCacheSize)
          /\ storage' = SaveToStorage(storage, q2, rc2, storageUp)

\* Faulty variant of SendsDirectly: every report is cached first.
SendsNeverDirectly(online) == FALSE

\* send(): `if (this.isOnline)`
SendsDirectly(online) == online

\* send(report): the sender is called and its result is not looked at when
\* online, cache() when offline.  actual: whether Transport delivered.
StoreSend(x, actual) ==
  /\ handed' = handed \cup {x}
  /\ fresh' = FALSE
  /\ UNCHANGED <<isOnline, signal, config, peer, storageUp, passes, dropped>>
  /\ IF SendsDirectly(isOnline)
     THEN /\ wire' = <<x>>
          /\ delivered' = IF actual = "ok" THEN delivered \cup {x} ELSE delivered
          /\ UNCHANGED <<cacheQueue, retryCount, storage, evicted>>
     ELSE /\ wire' = <<>>
          /\ delivered' = delivered
          /\ Cache(x)

\* flush() up to its first `await`: returns at once on an empty queue, else
\* copies the queue and calls the sender for the first copied report
FlushStart(p) ==
  IF Len(cacheQueue) = 0
  THEN /\ wire' = <<>>
       /\ UNCHANGED passes
  ELSE /\ passes' = [passes EXCEPT ![p] = [snap |-> ReportsToRetry(cacheQueue), idx |-> 1]]
       /\ wire' = <<ReportsToRetry(cacheQueue)[1]>>

\* lowest free slot for a new flush() invocation
FreeSlot(p) == ~Active(p) /\ \A q \in PassIds : q < p => Active(q)

\* constructor: `this.isOnline = ... navigator.onLine`, as a connectivity input
Probe(onLine) == IF onLine THEN "probe-online" ELSE "probe-offline"

\* handleOnline(): `this.isOnline = true`
FlagAfterOnline == TRUE

\* Faulty variant of FlagAfterOffline: the flag is left as it was.
FlagStaysOnline == TRUE

\* handleOffline(): `this.isOnline = false`
FlagAfterOffline == FALSE

\* handleOnline(): window 'online' event, raised by the host when
\* connectivity comes back
HandleOnline(p) ==
  /\ ~isOnline
  /\ FreeSlot(p)
  /\ isOnline' = FlagAfterOnline
  /\ signal' = "online"
  /\ fresh' = FALSE
  /\ FlushStart(p)
  /\ UNCHANGED <<cacheQueue, retryCount, config, peer, storage, storageUp>>
  /\ UNCHANGED <<handed, delivered, evicted, dropped>>

\* handleOffline(): window 'offline' event
HandleOffline ==
  /\ isOnline
  /\ isOnline' = FlagAfterOffline
  /\ signal' = "offline"
  /\ fresh' = FALSE
  /\ wire' = <<>>
  /\ UNCHANGED <<cacheQueue, retryCount, config, peer, storage, storageUp, passes>>
  /\ UNCHANGED <<handed, delivered, evicted, dropped>>

\* flush() called by the owner (public method)
Flush(p) ==
  /\ FreeSlot(p)
  /\ FlushStart(p)
  /\ fresh' = FALSE
  /\ UNCHANGED <<isOnline, signal, cacheQueue, retryCount, config, peer, storage, storageUp>>
  /\ UNCHANGED <<handed, delivered, evicted, dropped>>

\* flush() resumed from `await this.sender(cachedReport.report)`.
\* seen: "ok" when the await returned, "fail" when it threw;
\* actual: whether Transport delivered the report.
\* Runs to the next await (the sender call for the next copied report) or,
\* after the last report, through saveToStorage() to the end.
PassResume(p, seen, actual) ==
  /\ Active(p)
  /\ LET c == Cur(p)
         n == retryCount[c] + 1
         rc2 == IF seen = "ok" THEN retryCount ELSE [retryCount EXCEPT ![c] = n]
         remove == seen = "ok" \/ RetryLimitExceeded(n)
         q2 == IF remove THEN RemoveRef(cacheQueue, c) ELSE cacheQueue
         last == passes[p].idx = Len(passes[p].snap)
         ps2 == IF last THEN [passes EXCEPT ![p] = NoPass]
                ELSE [passes EXCEPT ![p].idx = @ + 1]
     IN /\ retryCount' = Collect(rc2, q2, ps2)
        /\ cacheQueue' = q2
        /\ passes' = ps2
        /\ dropped' = IF seen # "ok" /\ RetryLimitExceeded(n) THEN dropped \cup {c} ELSE dropped
        /\ delivered' = IF actual = "ok" THEN delivered \cup {c} ELSE delivered
        /\ wire' = IF last THEN <<>> ELSE <<passes[p].snap[passes[p].idx + 1]>>
        /\ storage' = IF last THEN SaveToStorage(storage, q2, rc2, storageUp) ELSE storage
  /\ fresh' = FALSE
  /\ UNCHANGED <<isOnline, signal, config, peer, storageUp, handed, evicted>>

\* clear(): `this.cacheQueue = []`, then saveToStorage()
StoreClear ==
  /\ cacheQueue' = <<>>
  /\ retryCount' = Collect(retryCount, <<>>, passes)
  /\ storage' = SaveToStorage(storage, <<>>, retryCount, storageUp)
  /\ wire' = <<>>
  /\ fresh' = FALSE
  /\ UNCHANGED <<isOnline, signal, config, peer, storageUp, passes>>
  /\ UNCHANGED <<handed, delivered, evicted, dropped>>

\* destroy(): saveToStorage(), then removeEventListener is given two arrow
\* functions created on the spot, which are not the ones the constructor
\* registered: the 'online' and 'offline' listeners stay registered
StoreDestroy ==
  /\ storage' = SaveToStorage(storage, cacheQueue, retryCount, storageUp)
  /\ fresh' = FALSE
  /\ UNCHANGED <<isOnline, signal, cacheQueue, retryCount, config, peer, storageUp, passes>>

\* loadFromStorage() reaches `this.cacheQueue = JSON.parse(cached)`
Loadable(st, up) == st.present /\ up

\* Faulty variant of LoadFromStorage: what is stored is used although the
\* read failed.
LoadFromStorageUnguarded(st, up) == LoadedQueue(st.items)

\* loadFromStorage(): nothing stored keeps the empty queue, a failed read
\* or parse gives the empty queue, else the parsed array as it is
LoadFromStorage(st, up) ==
  IF Loadable(st, up) THEN LoadedQueue(st.items) ELSE <<>>

\* new OfflineCache(cfg, sender) on a page load: fresh fields, the
\* suspended invocations of the previous page are gone
Construct(cfg, probe, up) ==
  /\ config' = cfg
  /\ peer' = peer
  /\ isOnline' = probe
  /\ signal' = Probe(probe)
  /\ fresh' = TRUE
  /\ storageUp' = up
  /\ cacheQueue' = LoadFromStorage(storage, up)
  /\ retryCount' = IF Loadable(storage, up) THEN LoadedRetryCount(storage.items)
                   ELSE [x \in Ids |-> 0]
  /\ passes' = [p \in PassIds |-> NoPass]
  /\ wire' = <<>>
  /\ UNCHANGED <<storage, handed, delivered, evicted, dropped>>

\* --------------------------------------------------------- RingBuffer ----
\* an array slot nothing was stored in
Undefined == 0

\* `(i + 1) % this.capacity`
NextIndex(i, cap) == (i + 1) % cap

\* Faulty variant of HeadAfterPush: head is not moved on a full ring.
HeadStays(h, sz, cap) == h

\* push(): head moves only when the ring was full
HeadAfterPush(h, sz, cap) == IF sz < cap THEN h ELSE NextIndex(h, cap)

\* push(): `if (this._size < this.capacity) this._size++`
SizeAfterPush(sz, cap) == IF sz < cap THEN sz + 1 ELSE sz

\* toArray(): the slots head, head+1, ... (size of them, modulo capacity),
\* those holding undefined left out
ToArray(buf, h, sz, cap) ==
  SelectSeq([i \in 1..sz |-> buf[(h + i - 1) % cap]], LAMBDA x : x # Undefined)

\* no array was returned yet
NoSnapshot == [aliased |-> FALSE, items |-> <<>>]

\* Faulty variant of ToArrayResult: the caller is given the ring's own view.
ToArrayAliased(buf, h, sz, cap) == [aliased |-> TRUE, items |-> ToArray(buf, h, sz, cap)]

\* toArray(): `const result: T[] = []` is filled and returned, an array of
\* its own; items: what it held when it was returned
ToArrayResult(buf, h, sz, cap) == [aliased |-> FALSE, items |-> ToArray(buf, h, sz, cap)]

\* what the holder of a returned array reads in it now
SnapshotRead(snap) ==
  IF snap.aliased THEN ToArray(buffer, head, size, capacity) ELSE snap.items

\* The breadcrumb objects addBreadcrumb() makes, by reference; each holds
\* what it was pushed with until some code writes to it
CrumbRefs == 1..(MaxPushes + 1)

\* new RingBuffer(cap), and the fields after clear()
RingFields(cap) ==
  [buffer |-> [i \in 0..(cap - 1) |-> Undefined], head |-> 0, tail |-> 0, size |-> 0]

RingNew(cap) ==
  /\ capacity = cap
  /\ buffer = RingFields(cap).buffer
  /\ head = 0
  /\ tail = 0
  /\ size = 0
  /\ snapshot = NoSnapshot
  /\ crumbData = [ref \in CrumbRefs |-> "pushed"]
  /\ records = <<>>
  /\ ringLog = <<>>

\* push(item)
RingPush(item) ==
  /\ buffer' = [buffer EXCEPT ![tail] = item]
  /\ tail' = NextIndex(tail, capacity)
  /\ size' = SizeAfterPush(size, capacity)
  /\ head' = HeadAfterPush(head, size, capacity)
  /\ ringLog' = Append(ringLog, item)
  /\ UNCHANGED <<capacity, snapshot, crumbData, records>>

\* clear()
RingClear ==
  /\ buffer' = RingFields(capacity).buffer
  /\ head' = 0
  /\ tail' = 0
  /\ size' = 0
  /\ ringLog' = <<>>
  /\ UNCHANGED <<capacity, snapshot, crumbData, records>>

\* ------------------------------------------- OfflineCache on its own ----
\* The class with a sender that is any function returning void or a promise:
\* the await in flush() sees what Transport did.  ErrorMonitor, the only
\* code constructing an OfflineCache, passes `enabled: true` and one fixed
\* maxCacheSize, so every page of an application uses the same config.
Configs == [maxCacheSize : 1..MaxCacheSizeCfg, enabled : {TRUE}]
Outcomes == {"ok", "fail"}

othersOfStore == <<batchVars, wiringVars, ringVars, sentBatches, captureVars>>

InitObs ==
  /\ nextId = 1
  /\ handed = {}
  /\ wire = <<>>
  /\ delivered = {}
  /\ evicted = {}
  /\ dropped = {}
  /\ sentBatches = <<>>
  /\ raised = FALSE

\* the breadcrumb ring, not used
InitRingIdle == RingNew(MaxCapacity)

\* ----------------------------------------------- ErrorMonitor's config ----
\* A string option that was not given (falsy in `opts.user?.id || config.userId`)
Unset == ""
\* Objects used as field maps ({...a, ...b}, Object.assign): functions
\* from field names to values
EmptyMap == [k \in {} |-> Unset]
Merge(a, b) == [k \in DOMAIN a \cup DOMAIN b |-> IF k \in DOMAIN b THEN b[k] ELSE a[k]]
\* Sampling rates are multiples of 1/RateScale: r stands for r/RateScale
FullRate == RateScale
\* the constructor's config: enabled, no filter patterns, every event
\* sampled; userId and tags as the owner gave them
MonitorConfig ==
  [enabled |-> TRUE, ignoreErrors |-> {}, ignoreUrls |-> {},
   errorSampleRate |-> FullRate, userId |-> "u-cfg",
   tags |-> [k1 |-> "cfg", k2 |-> "cfg"]]
\* no capture() call in the step
NoCapture == <<>>
\* the plugins the owner has
PluginNames == {"p1", "p2"}
\* Functions that window.fetch can be: the browser's, or the wrapper made
\* by the k-th init() (k >= 1); NoFunction is null
Native == 0
NoFunction == -1
\* new BlankScreenDetector({maxChecks}): checkCount 0, timerId null (0),
\* isBlankScreen false.  timers: the timeouts of the detector pending in
\* the host; calls: how often the callback was invoked; running: start()
\* was called and stop() was not called since; starts: calls of start()
DetectorNew ==
  [maxChecks |-> MaxChecksCfg, checkCount |-> 0, timerId |-> 0,
   isBlankScreen |-> FALSE, timers |-> {}, calls |-> 0, running |-> FALSE,
   starts |-> 0]
\* a new ErrorMonitorWeb on a page nothing has wrapped
WebNew ==
  [inits |-> 0, eventListeners |-> <<>>, originalFetch |-> NoFunction,
   windowFetch |-> Native, inFlight |-> <<>>, detector |-> DetectorNew]

\* the monitor's capture path, not used
InitCaptureIdle ==
  /\ monConfig = MonitorConfig
  /\ isInitialized = TRUE
  /\ plugins = <<>>
  /\ setups = [p \in PluginNames |-> 0]
  /\ web = WebNew
  /\ captured = NoCapture

\* BatchQueue's constructor: `batchSize: config.batchSize || 10`,
\* `delay: config.delay || 1000`, `enabled: config.enabled !== false`
BatchQueueConfig(options) ==
  [batchSize |-> IF options.batchSize = 0 THEN DefaultBatchSize ELSE options.batchSize,
   delay |-> IF options.delay = 0 THEN DefaultDelay ELSE options.delay,
   enabled |-> TRUE]

\* OfflineCache's constructor: `maxCacheSize: config.maxCacheSize || 100`,
\* `enabled: config.enabled !== false`; it reads no retry limit
OfflineCacheConfig(options) ==
  [maxCacheSize |-> IF options.maxCacheSize = 0 THEN DefaultMaxCacheSize
                    ELSE options.maxCacheSize,
   enabled |-> TRUE]

\* the options of a pipeline that is not looked at
IdleOptions ==
  [batchSize |-> BatchSizeCfg, delay |-> DefaultDelay,
   maxCacheSize |-> MonitorMaxCacheSize, maxRetries |-> MaxRetries]

\* a BatchQueue made with the options
InitBatchWith(options) ==
  /\ queue = <<>>
  /\ timerId = 0
  /\ timers = {}
  /\ given = options
  /\ bqConfig = BatchQueueConfig(options)

InitBatchIdle == InitBatchWith(IdleOptions)

InitStoreFields(cfg, probe, up) ==
  /\ isOnline = probe
  /\ signal = Probe(probe)
  /\ fresh = TRUE
  /\ storageUp = up
  /\ cacheQueue = <<>>
  /\ retryCount = [x \in Ids |-> 0]
  /\ config = cfg
  /\ peer = <<>>
  /\ storage = NoEntry
  /\ passes = [p \in PassIds |-> NoPass]

InitStore ==
  /\ \E cfg \in Configs, probe \in BOOLEAN, up \in BOOLEAN : InitStoreFields(cfg, probe, up)
  /\ InitBatchIdle
  /\ hasBatchQueue = FALSE
  /\ transport = "sender"
  /\ destroyed = FALSE
  /\ InitRingIdle
  /\ InitCaptureIdle
  /\ InitObs

Send ==
  /\ raised' = FALSE
  /\ nextId <= MaxEvents
  /\ \E actual \in Outcomes : StoreSend(nextId, actual)
  /\ nextId' = nextId + 1
  /\ UNCHANGED othersOfStore

Online ==
  /\ raised' = FALSE
  /\ \E p \in PassIds : HandleOnline(p)
  /\ UNCHANGED <<nextId, othersOfStore>>

Offline ==
  /\ raised' = FALSE
  /\ HandleOffline
  /\ UNCHANGED <<nextId, othersOfStore>>

CallerFlush ==
  /\ raised' = FALSE
  /\ \E p \in PassIds : Flush(p)
  /\ UNCHANGED <<nextId, othersOfStore>>

Resume ==
  /\ raised' = FALSE
  /\ \E p \in PassIds, actual \in Outcomes : PassResume(p, actual, actual)
  /\ UNCHANGED <<nextId, othersOfStore>>

Reload ==
  /\ raised' = FALSE
  /\ \E probe \in BOOLEAN, up \in BOOLEAN : Construct(config, probe, up)
  /\ UNCHANGED <<nextId, othersOfStore>>

Clear ==
  /\ raised' = FALSE
  /\ StoreClear
  /\ UNCHANGED <<nextId, othersOfStore>>

NextStore == Send \/ Online \/ Offline \/ CallerFlush \/ Resume \/ Reload \/ Clear

SpecStore == InitStore /\ [][NextStore]_vars

\* a suspended flush() is resumed when its promise settles; the 'online'
\* and 'offline' events, reloads and the owner's calls may never come
FairStore == SpecStore /\ WF_vars(Resume)

\* ------------------------------------ two instances, one storage key ----
\* send(report) on the other instance while offline: its cache() pushes
\* onto its own queue and saveToStorage() writes that queue under the key
PeerSend ==
  /\ raised' = FALSE
  /\ nextId <= MaxEvents
  /\ ~SendsDirectly(isOnline)
  /\ config.enabled
  /\ peer' = CacheQueueAfterCache(peer, nextId, config.maxCacheSize)
  /\ storage' = SaveToStorage(storage, peer', [x \in Ids |-> 0], storageUp)
  /\ nextId' = nextId + 1
  /\ wire' = <<>>
  /\ fresh' = FALSE
  /\ UNCHANGED <<isOnline, signal, cacheQueue, retryCount, config, storageUp, passes>>
  /\ UNCHANGED <<obsStore, othersOfStore>>

\* both instances made on an offline page with nothing stored
InitShared ==
  /\ \E cfg \in Configs, up \in BOOLEAN : InitStoreFields(cfg, FALSE, up)
  /\ InitBatchIdle
  /\ hasBatchQueue = FALSE
  /\ transport = "sender"
  /\ destroyed = FALSE
  /\ InitRingIdle
  /\ InitCaptureIdle
  /\ InitObs

\* while the page stays offline: both owners send, and the first one's
\* owner may flush
NextShared == Send \/ PeerSend \/ CallerFlush \/ Resume

SpecShared == InitShared /\ [][NextShared]_vars

\* one page: the life of one OfflineCache instance whose owner sends and
\* flushes
NextInstance == Send \/ Online \/ Offline \/ CallerFlush \/ Resume

SpecInstance == InitStore /\ [][NextInstance]_vars

\* --------------------------------------------------------- BatchQueue ----
\* window.setTimeout: a handle not in use (handles are positive)
NewHandle(tms) == CHOOSE h \in 1..(Cardinality(tms) + 1) : h \notin tms

\* Faulty variant of ReachedBatchSize: off by one.
ExceededBatchSize(len, batchSize) == len > batchSize

\* add(): `if (this.queue.length >= this.config.batchSize)`
ReachedBatchSize(len, batchSize) == len >= batchSize

\* Faulty variant of FlushedReports: the batch is built newest first.
FlushedNewestFirst(q) == [i \in 1..Len(q) |-> q[Len(q) + 1 - i]]

\* flush(): `const reports = this.queue.map(item => item.report)`
FlushedReports(q) == q

\* Faulty variant of QueueAfterFlush: the reports stay queued.
QueueKeptAfterFlush(q) == q

\* flush(): `this.queue = []`
QueueAfterFlush(q) == <<>>

\* Faulty variant of ScheduleFlush: a timeout is set on every call.
ScheduleAnother(tid, tms) ==
  [timerId |-> NewHandle(tms), timers |-> tms \cup {NewHandle(tms)}]

\* Faulty variant of ScheduleFlush: no timeout is set.
ScheduleNothing(tid, tms) == [timerId |-> tid, timers |-> tms]

\* scheduleFlush(): nothing when a timer is set, else one setTimeout whose
\* handle is kept in timerId
ScheduleFlush(tid, tms) ==
  IF tid # 0 THEN [timerId |-> tid, timers |-> tms]
  ELSE [timerId |-> NewHandle(tms), timers |-> tms \cup {NewHandle(tms)}]

\* Faulty variant of QueueIsEmpty: the sender is called for an empty queue too.
QueueNeverEmpty(q) == FALSE

\* flush(): `if (this.queue.length === 0) return`
QueueIsEmpty(q) == Len(q) = 0

\* flush() on queue q with timerId tid and pending host timers tms:
\* clearTimeout, then nothing more on an empty queue, else the reports go to
\* the sender in one array and the queue is emptied
BqFlush(q, tid, tms) ==
  /\ timers' = IF tid # 0 THEN tms \ {tid} ELSE tms
  /\ timerId' = 0
  /\ IF QueueIsEmpty(q)
     THEN /\ queue' = q
          /\ sentBatches' = sentBatches
     ELSE /\ sentBatches' = Append(sentBatches, FlushedReports(q))
          /\ queue' = QueueAfterFlush(q)

\* add(report)
BqAdd(x) ==
  /\ UNCHANGED <<bqConfig, given>>
  /\ IF ~bqConfig.enabled
     THEN /\ sentBatches' = Append(sentBatches, <<x>>)
          /\ UNCHANGED <<queue, timerId, timers>>
     ELSE LET q1 == Append(queue, x)
          IN IF ReachedBatchSize(Len(q1), bqConfig.batchSize)
             THEN BqFlush(q1, timerId, timers)
             ELSE /\ queue' = q1
                  /\ timerId' = ScheduleFlush(timerId, timers).timerId
                  /\ timers' = ScheduleFlush(timerId, timers).timers
                  /\ sentBatches' = sentBatches

\* the timeout set by scheduleFlush() expires: `() => { this.flush() }`
BqTimeout(h) ==
  /\ h \in timers
  /\ BqFlush(queue, timerId, timers \ {h})
  /\ UNCHANGED <<bqConfig, given>>

\* 'pagehide' / 'beforeunload' listener: `() => this.flush()`
BqPageHide ==
  /\ BqFlush(queue, timerId, timers)
  /\ UNCHANGED <<bqConfig, given>>

\* destroy(): `this.flush()`, then removeEventListener is given two arrow
\* functions created on the spot, which are not the ones the constructor
\* registered: the 'pagehide' and 'beforeunload' listeners stay registered
BqDestroy ==
  /\ BqFlush(queue, timerId, timers)
  /\ UNCHANGED <<bqConfig, given>>

\* the array the step handed to the BatchQueue sender (empty when none)
BatchSentNow == IF Len(sentBatches') > Len(sentBatches)
                THEN sentBatches'[Len(sentBatches')] ELSE <<>>

\* --------------------------------------------- BatchQueue on its own ----
\* Reports the environment adds in SpecBatch
MaxAdds == 7

othersOfBatch == <<storeVars, wiringVars, ringVars, obsStore, wire, captureVars>>

InitStoreIdle ==
  /\ InitStoreFields([maxCacheSize |-> MonitorMaxCacheSize, enabled |-> TRUE], TRUE, TRUE)
  /\ hasBatchQueue = TRUE
  /\ transport = "sender"
  /\ destroyed = FALSE

InitBatch ==
  /\ InitBatchIdle
  /\ InitStoreIdle
  /\ InitRingIdle
  /\ InitCaptureIdle
  /\ InitObs

\* the owner adds reports until it destroys the queue
Add ==
  /\ raised' = FALSE
  /\ ~destroyed
  /\ nextId <= MaxAdds
  /\ BqAdd(nextId)
  /\ nextId' = nextId + 1
  /\ UNCHANGED othersOfBatch

Timeout ==
  /\ raised' = FALSE
  /\ \E h \in timers : BqTimeout(h)
  /\ UNCHANGED <<nextId, othersOfBatch>>

PageHide ==
  /\ raised' = FALSE
  /\ BqPageHide
  /\ UNCHANGED <<nextId, othersOfBatch>>

Destroy ==
  /\ raised' = FALSE
  /\ ~destroyed
  /\ BqDestroy
  /\ destroyed' = TRUE
  /\ UNCHANGED <<nextId, storeVars, hasBatchQueue, transport, ringVars, obsStore, wire,
                 captureVars>>

NextBatch == Add \/ Timeout \/ PageHide \/ Destroy

SpecBatch == InitBatch /\ [][NextBatch]_vars

\* timers fire: a pending timeout eventually expires
FairBatch == SpecBatch /\ WF_vars(Timeout)

\* ------------------------------- a sender that adds to its own queue ----
\* Calls of add() the sender makes on the queue that is calling it.
MaxReentrant == 2

\* flush() and add() on the fields st = [queue, timerId, timers, sent,
\* pending] when the sender, each time it is called, calls add() with the
\* next report of st.pending (and returns normally once there is none):
\* the call is made inside sendReports(), before `this.queue = []`
RECURSIVE ReFlush(_), ReAdd(_, _)
ReFlush(st) ==
  LET cleared == [st EXCEPT !.timerId = 0,
                            !.timers = IF st.timerId # 0 THEN @ \ {st.timerId} ELSE @]
  IN IF QueueIsEmpty(cleared.queue) THEN cleared
     ELSE LET called == [cleared EXCEPT !.sent = Append(@, FlushedReports(cleared.queue))]
              back == IF called.pending = <<>> THEN called
                      ELSE ReAdd([called EXCEPT !.pending = Tail(@)], Head(called.pending))
          IN [back EXCEPT !.queue = QueueAfterFlush(@)]

ReAdd(st, x) ==
  LET q1 == Append(st.queue, x)
  IN IF ReachedBatchSize(Len(q1), bqConfig.batchSize)
     THEN ReFlush([st EXCEPT !.queue = q1])
     ELSE [st EXCEPT !.queue = q1,
                     !.timerId = ScheduleFlush(st.timerId, st.timers).timerId,
                     !.timers = ScheduleFlush(st.timerId, st.timers).timers]

\* the fields before a call, with k reports the sender is going to add
BqFields(tms, k) ==
  [queue |-> queue, timerId |-> timerId, timers |-> tms, sent |-> sentBatches,
   pending |-> [i \in 1..k |-> nextId + i]]

\* the fields after the call; the reports the sender did add are used up
BqBecomes(st, used) ==
  /\ queue' = st.queue
  /\ timerId' = st.timerId
  /\ timers' = st.timers
  /\ sentBatches' = st.sent
  /\ nextId' = nextId + used - Len(st.pending)
  /\ raised' = FALSE
  /\ UNCHANGED <<bqConfig, given, othersOfBatch>>

\* add(report) by the owner
AddReentrant ==
  /\ \E k \in 0..MaxReentrant :
        /\ nextId + k <= MaxAdds
        /\ BqBecomes(ReAdd(BqFields(timers, k), nextId), k + 1)

\* the timeout expires
TimeoutReentrant ==
  /\ \E h \in timers, k \in 0..MaxReentrant :
        /\ nextId + k <= MaxAdds + 1
        /\ BqBecomes(ReFlush(BqFields(timers \ {h}, k)), k)

NextReentrant == AddReentrant \/ TimeoutReentrant

SpecReentrant == InitBatch /\ [][NextReentrant]_vars

\* the options a pipeline is configured with, over their valid ranges
Options ==
  [batchSize : 1..BatchSizeCfg, delay : 0..MaxDelayCfg,
   maxCacheSize : 1..MaxCacheSizeCfg, maxRetries : 0..MaxRetriesCfg]

InitConfig ==
  /\ \E options \in Options :
        /\ InitBatchWith(options)
        /\ InitStoreFields(OfflineCacheConfig(options), TRUE, TRUE)
  /\ hasBatchQueue = TRUE
  /\ transport = "sender"
  /\ destroyed = FALSE
  /\ InitRingIdle
  /\ InitCaptureIdle
  /\ InitObs

\* a BatchQueue made with any valid options, used as in SpecBatch
SpecConfig == InitConfig /\ [][NextBatch]_vars

\* --------------------------------------------- RingBuffer on its own ----
othersOfRing ==
  <<storeVars, batchVars, wiringVars, obsStore, wire, sentBatches, raised,
    captureVars>>

InitRing ==
  /\ \E cap \in 1..MaxCapacity : RingNew(cap)
  /\ InitStoreFields([maxCacheSize |-> MonitorMaxCacheSize, enabled |-> TRUE], TRUE, TRUE)
  /\ InitBatchIdle
  /\ hasBatchQueue = TRUE
  /\ transport = "sender"
  /\ destroyed = FALSE
  /\ InitCaptureIdle
  /\ InitObs

Push ==
  /\ nextId <= MaxPushes
  /\ RingPush(nextId)
  /\ nextId' = nextId + 1
  /\ UNCHANGED othersOfRing

ClearRing ==
  /\ RingClear
  /\ UNCHANGED <<nextId, othersOfRing>>

\* a caller takes toArray() and keeps the array
Snapshot ==
  /\ snapshot' = ToArrayResult(buffer, head, size, capacity)
  /\ UNCHANGED <<buffer, capacity, head, tail, size, ringLog, crumbData, records>>
  /\ UNCHANGED <<nextId, othersOfRing>>

NextRing == Push \/ ClearRing \/ Snapshot

SpecRing == InitRing /\ [][NextRing]_vars

\* ------------------------------------------------------- ErrorMonitor ----
\* What Transport does with a payload: "ok"; "fail" (sendBeacon returns
\* false, fetch rejects or answers with an HTTP error, the promise of a
\* customReporter rejects); "throw" (customReporter throws)
NetOutcomes(kind) == IF kind = "custom" THEN {"ok", "fail", "throw"} ELSE {"ok", "fail"}

\* sendToServerDirectly(data), as its caller sees it: the result of
\* customReporter and of sendBeacon is dropped and the fetch promise is
\* caught and not returned, so it returns undefined unless customReporter
\* throws
SendToServerDirectly(kind, net) ==
  IF kind = "custom" /\ net = "throw" THEN "throws" ELSE "returns"

\* sendBatchToServer(reports): the same shape
SendBatchToServer(kind, net) ==
  IF kind = "custom" /\ net = "throw" THEN "throws" ELSE "returns"

\* `await this.sender(...)` inside try/catch in OfflineCache.flush()
AwaitSender(result) == IF result = "returns" THEN "ok" ELSE "fail"

Delivers(net) == IF net = "ok" THEN "ok" ELSE "fail"

\* BatchQueue.sendReports(): the sender is called inside try/catch
SendReportsRaises(result) == FALSE

\* OfflineCache.send(): `this.sender(report)` is called outside any try, and
\* neither sendToServer, report() nor capture() has one
StoreSendRaises(online, result) == online /\ result = "throws"

\* report(data): batchQueue.add when the monitor has a BatchQueue, whose
\* sender is sendBatchToServer; else sendToServer, which is offlineCache.send
MonitorReport(x, net) ==
  IF hasBatchQueue
  THEN /\ raised' = SendReportsRaises(SendBatchToServer(transport, net))
       /\ BqAdd(x)
       /\ wire' = BatchSentNow
       /\ delivered' = IF net = "ok" THEN delivered \cup Range(BatchSentNow) ELSE delivered
       /\ UNCHANGED <<storeVars, handed, evicted, dropped>>
  ELSE /\ raised' = StoreSendRaises(isOnline, SendToServerDirectly(transport, net))
       /\ StoreSend(x, Delivers(net))
       /\ UNCHANGED <<batchVars, sentBatches>>

\* a BatchQueue flush of the monitor (timeout or page-hide listener)
MonitorBatchFlush(flush, net) ==
  /\ hasBatchQueue
  /\ flush
  /\ wire' = BatchSentNow
  /\ delivered' = IF net = "ok" THEN delivered \cup Range(BatchSentNow) ELSE delivered
  /\ UNCHANGED <<storeVars, handed, evicted, dropped>>

\* The monitor's senders return without a promise, so a flush() of its
\* OfflineCache resumes in a microtask: no other handler runs in between.
InitMonitor ==
  /\ \E probe \in BOOLEAN, up \in BOOLEAN :
        InitStoreFields([maxCacheSize |-> MonitorMaxCacheSize, enabled |-> TRUE], probe, up)
  /\ InitBatchIdle
  /\ hasBatchQueue \in BOOLEAN
  /\ transport \in {"beacon", "fetch", "custom"}
  /\ destroyed = FALSE
  /\ InitRingIdle
  /\ InitCaptureIdle
  /\ InitObs

\* what a plugin hook (beforeCapture, afterCapture, beforeReport) does
HookOutcomes == {"returns", "throws"}

\* capture() and report() call the hooks in plain loops, outside any try
CaptureRaises(hook) == hook = "throws"

\* capture() of the event nextId, through report().  capture() returns at
\* once when isInitialized is false, which destroy() makes it; a hook that
\* throws ends it before anything is handed on
Report ==
  /\ ~destroyed
  /\ nextId <= MaxEvents
  /\ NoActivePass
  /\ \E hook \in HookOutcomes, net \in NetOutcomes(transport) :
        IF CaptureRaises(hook)
        THEN /\ raised' = TRUE
             /\ wire' = <<>>
             /\ UNCHANGED <<storeVars, batchVars, obsStore, sentBatches>>
        ELSE MonitorReport(nextId, net)
  /\ nextId' = nextId + 1
  /\ UNCHANGED <<wiringVars, ringVars, captureVars>>

MonitorTimeout ==
  /\ raised' = FALSE
  /\ NoActivePass
  /\ \E h \in timers, net \in NetOutcomes(transport) : MonitorBatchFlush(BqTimeout(h), net)
  /\ UNCHANGED <<nextId, wiringVars, ringVars, captureVars>>

MonitorPageHide ==
  /\ raised' = FALSE
  /\ NoActivePass
  /\ \E net \in NetOutcomes(transport) : MonitorBatchFlush(BqPageHide, net)
  /\ UNCHANGED <<nextId, wiringVars, ringVars, captureVars>>

MonitorOnline ==
  /\ raised' = FALSE
  /\ NoActivePass
  /\ \E p \in PassIds : HandleOnline(p)
  /\ UNCHANGED <<nextId, othersOfStore>>

MonitorOffline ==
  /\ raised' = FALSE
  /\ NoActivePass
  /\ HandleOffline
  /\ UNCHANGED <<nextId, othersOfStore>>

MonitorResume ==
  /\ raised' = FALSE
  /\ \E p \in PassIds, net \in NetOutcomes(transport) :
        PassResume(p, AwaitSender(SendToServerDirectly(transport, net)), Delivers(net))
  /\ UNCHANGED <<nextId, othersOfStore>>

\* destroy(): batchQueue.destroy() when there is a BatchQueue, then
\* offlineCache.destroy(); both fields are set to null
ErrorMonitorDestroy ==
  /\ raised' = FALSE
  /\ ~destroyed
  /\ NoActivePass
  /\ destroyed' = TRUE
  /\ IF hasBatchQueue
     THEN \E net \in NetOutcomes(transport) :
            /\ BqDestroy
            /\ wire' = BatchSentNow
            /\ delivered' = IF net = "ok" THEN delivered \cup Range(BatchSentNow)
                            ELSE delivered
     ELSE UNCHANGED <<batchVars, sentBatches, wire, delivered>>
  /\ StoreDestroy
  /\ plugins' = <<>>
  /\ RingClear
  /\ isInitialized' = FALSE
  /\ captured' = NoCapture
  /\ UNCHANGED <<hasBatchQueue, transport, nextId, handed, evicted, dropped, monConfig,
                 setups>>

MonitorDestroy ==
  /\ ErrorMonitorDestroy
  /\ UNCHANGED web

NextMonitor ==
  Report \/ MonitorTimeout \/ MonitorPageHide \/ MonitorOnline \/ MonitorOffline
    \/ MonitorResume \/ MonitorDestroy

SpecMonitor == InitMonitor /\ [][NextMonitor]_vars

\* ----------------------------------------------- ErrorMonitor.capture ----
\* Texts of messages and URLs; a pattern is named after the one text its
\* test() accepts
Matches(pattern, text) == pattern = text

\* `error instanceof Error ? {type: 'custom', message, stack, context: {}} : error`
Normalize(raw) ==
  IF raw.isError
  THEN [type |-> "custom", message |-> raw.message, context |-> EmptyMap, marks |-> {}]
  ELSE [type |-> raw.type, message |-> raw.message, context |-> raw.context, marks |-> {}]

\* `{level: 'error', tags: {}, extra: {}, user: {}, skipSampling: false,
\*   skipFilter: false, ...options}`
DefaultOptions ==
  [level |-> "error", tags |-> EmptyMap, extra |-> EmptyMap, user |-> EmptyMap,
   skipSampling |-> FALSE, skipFilter |-> FALSE]
WithDefaults(options) == Merge(DefaultOptions, options)

\* error.context?.url
ContextUrl(ev) == IF "url" \in DOMAIN ev.context THEN ev.context["url"] ELSE Unset

\* shouldFilter(error): a message pattern, or a URL pattern when the event
\* has a context URL
ShouldFilter(cfg, ev) ==
  \/ \E pattern \in cfg.ignoreErrors : Matches(pattern, ev.message)
  \/ /\ ContextUrl(ev) # Unset
     /\ \E pattern \in cfg.ignoreUrls : Matches(pattern, ContextUrl(ev))

FilterIgnoresSkip(cfg, opts, ev) == ShouldFilter(cfg, ev)
\* `!opts.skipFilter && this.shouldFilter(normalizedError)`
FilteredOut(cfg, opts, ev) == ~opts.skipFilter /\ ShouldFilter(cfg, ev)

\* `!opts.skipSampling && ... Math.random() > this.config.errorSampleRate`
SampledOut(cfg, opts, draw) == ~opts.skipSampling /\ draw > cfg.errorSampleRate

\* A hook call: which hook of which plugin, the value it was given, what it
\* returned ("undefined", "null" or "value") and the value returned
HookCall(hook, plugin, arg, returned, result) ==
  [hook |-> hook, plugin |-> plugin, arg |-> arg, returned |-> returned, result |-> result]

\* what a plugin's hook adds to the event it is given
Mark(ev, plugin) == [ev EXCEPT !.marks = @ \cup {plugin}]

\* What a beforeCapture hook does in a call: the plugin has none ("absent");
\* it returns undefined; it returns null; it returns a new object made from
\* its argument ("fresh"); it changes its argument and returns it ("inplace")
BeforeCaptureKinds == {"absent", "undefined", "null", "fresh", "inplace"}

\* the loop's variables when it starts: `let processedError = normalizedError`
BeforeCaptureStart(ev) ==
  [normalizedError |-> ev, processedError |-> ev, same |-> TRUE, vetoed |-> FALSE,
   log |-> <<>>]

\* `plugin.beforeCapture?.(normalizedError)`
BeforeCaptureArg(st) == st.normalizedError

VetoContinues(st) == FALSE
\* `if (result === null) return`
VetoReturns(st) == st.vetoed

\* the beforeCapture loop from plugin i on; `same` tells that processedError
\* is the normalizedError object itself
RECURSIVE BeforeCaptureLoop(_, _, _, _)
BeforeCaptureLoop(pl, kinds, i, st) ==
  IF i > Len(pl) \/ VetoReturns(st) THEN st
  ELSE LET arg == BeforeCaptureArg(st)
           fresh_ == Mark(arg, pl[i])
           logged(returned, result) ==
             Append(st.log, HookCall("beforeCapture", pl[i], arg, returned, result))
       IN CASE kinds[i] = "absent" -> BeforeCaptureLoop(pl, kinds, i + 1, st)
            [] kinds[i] = "undefined" ->
                 BeforeCaptureLoop(pl, kinds, i + 1,
                   [st EXCEPT !.log = logged("undefined", <<>>)])
            [] kinds[i] = "null" ->
                 BeforeCaptureLoop(pl, kinds, i + 1,
                   [st EXCEPT !.vetoed = TRUE, !.log = logged("null", <<>>)])
            [] kinds[i] = "fresh" ->
                 BeforeCaptureLoop(pl, kinds, i + 1,
                   [st EXCEPT !.processedError = fresh_, !.same = FALSE,
                              !.log = logged("value", <<fresh_>>)])
            [] kinds[i] = "inplace" ->
                 BeforeCaptureLoop(pl, kinds, i + 1,
                   [st EXCEPT !.normalizedError = fresh_, !.same = TRUE,
                              !.log = logged("value", <<fresh_>>)])

\* processedError when the loop is over
ProcessedError(st) == IF st.same THEN st.normalizedError ELSE st.processedError

\* `opts.user.id || this.config.userId`
UserId(cfg, opts) ==
  IF "id" \in DOMAIN opts.user /\ opts.user["id"] # Unset THEN opts.user["id"]
  ELSE cfg.userId

BreadcrumbsNone(crumbs) == <<>>
\* `breadcrumbs: this.breadcrumbs.toArray()`
BreadcrumbsOf(crumbs) == crumbs

\* the ErrorReport capture() builds: a map from field names to values
\* (context.userId and context.tags are the fields userId and tags)
BuildReport(id, cfg, opts, ev, crumbs) ==
  [eventId |-> id, type |-> ev.type, message |-> ev.message, marks |-> ev.marks,
   level |-> opts.level, userId |-> UserId(cfg, opts),
   tags |-> Merge(cfg.tags, opts.tags),
   breadcrumbs |-> BreadcrumbsOf(crumbs),
   extra |-> Merge(ev.context, opts.extra)]

\* the fields a hook of the plugin returns: one every plugin sets, and one
\* of its own
Contribution(plugin) == [k \in {"shared", plugin} |-> plugin]

\* What an afterCapture hook does in a call: none, returns undefined, or
\* returns fields
AfterCaptureKinds == {"absent", "undefined", "fields"}

\* `Object.assign(report, result)`
Assign(report, result) == Merge(report, result)

RECURSIVE AfterCaptureLoop(_, _, _, _)
AfterCaptureLoop(pl, kinds, i, st) ==
  IF i > Len(pl) THEN st
  ELSE CASE kinds[i] = "absent" -> AfterCaptureLoop(pl, kinds, i + 1, st)
         [] kinds[i] = "undefined" ->
              AfterCaptureLoop(pl, kinds, i + 1,
                [st EXCEPT !.log = Append(@,
                   HookCall("afterCapture", pl[i], st.report, "undefined", <<>>))])
         [] kinds[i] = "fields" ->
              AfterCaptureLoop(pl, kinds, i + 1,
                [report |-> Assign(st.report, Contribution(pl[i])),
                 log |-> Append(st.log,
                   HookCall("afterCapture", pl[i], st.report, "value",
                            <<Contribution(pl[i])>>))])

\* What a beforeReport hook does in a call: none, returns undefined, returns
\* fields, or returns its argument with fields added ("full")
BeforeReportKinds == {"absent", "undefined", "fields", "full"}

\* report(data): `plugin.beforeReport?.(data)`, `processedReport = result`
RECURSIVE BeforeReportLoop(_, _, _, _)
BeforeReportLoop(pl, kinds, i, st) ==
  IF i > Len(pl) THEN st
  ELSE LET full == Merge(st.data, Contribution(pl[i]))
       IN CASE kinds[i] = "absent" -> BeforeReportLoop(pl, kinds, i + 1, st)
            [] kinds[i] = "undefined" ->
                 BeforeReportLoop(pl, kinds, i + 1,
                   [st EXCEPT !.log = Append(@,
                      HookCall("beforeReport", pl[i], st.data, "undefined", <<>>))])
            [] kinds[i] = "fields" ->
                 BeforeReportLoop(pl, kinds, i + 1,
                   [st EXCEPT !.processedReport = Contribution(pl[i]),
                      !.log = Append(@, HookCall("beforeReport", pl[i], st.data, "value",
                                                 <<Contribution(pl[i])>>))])
            [] kinds[i] = "full" ->
                 BeforeReportLoop(pl, kinds, i + 1,
                   [st EXCEPT !.processedReport = full,
                      !.log = Append(@, HookCall("beforeReport", pl[i], st.data, "value",
                                                 <<full>>))])

\* nothing was built and nothing handed on
Returned(log) == [log |-> log, built |-> <<>>, out |-> <<>>]

EnabledIgnored(init, cfg) == ~init
\* Faulty variant of ReturnsAtOnce: isInitialized is not looked at.
InitializedIgnored(init, cfg) == cfg.enabled = FALSE
\* `if (!this.isInitialized) return`, `if (this.config.enabled === false) return`
ReturnsAtOnce(init, cfg) == ~init \/ cfg.enabled = FALSE

\* capture(error, options) up to the hand-over in report(): the hook calls
\* made, the record built and the record handed on.  draw is the value of
\* Math.random(), beh what each plugin's hooks do in this call
CaptureResult(init, cfg, pl, crumbs, id, raw, options, draw, beh) ==
  LET ev == Normalize(raw)
      opts == WithDefaults(options)
      bc == BeforeCaptureLoop(pl, beh.beforeCapture, 1, BeforeCaptureStart(ev))
      report == BuildReport(id, cfg, opts, ProcessedError(bc), crumbs)
      ac == AfterCaptureLoop(pl, beh.afterCapture, 1, [report |-> report, log |-> bc.log])
      br == BeforeReportLoop(pl, beh.beforeReport, 1,
              [data |-> ac.report, processedReport |-> ac.report, log |-> ac.log])
  IN IF ReturnsAtOnce(init, cfg) THEN Returned(<<>>)
     ELSE IF FilteredOut(cfg, opts, ev) THEN Returned(<<>>)
     ELSE IF SampledOut(cfg, opts, draw) THEN Returned(<<>>)
     ELSE IF bc.vetoed THEN Returned(bc.log)
     ELSE [log |-> br.log,
           built |-> <<report>>,
           out |-> <<br.processedReport>>]

\* A registered plugin: its name and what each of its hooks does
Plugin(name, bc, ac, br) ==
  [name |-> name, beforeCapture |-> bc, afterCapture |-> ac, beforeReport |-> br]
NamesOf(pl) == [i \in 1..Len(pl) |-> pl[i].name]
HooksOf(pl) ==
  [beforeCapture |-> [i \in 1..Len(pl) |-> pl[i].beforeCapture],
   afterCapture |-> [i \in 1..Len(pl) |-> pl[i].afterCapture],
   beforeReport |-> [i \in 1..Len(pl) |-> pl[i].beforeReport]]

\* the breadcrumbs the ring holds
Breadcrumbs == ToArray(buffer, head, size, capacity)

\* A capture() call of the owner through the entry point `entry`, as one
\* step: what it read and did is kept in `captured`
MonitorCaptureCore(entry, args, raw, options, draw, net) ==
  LET beh == HooksOf(plugins)
      r == CaptureResult(isInitialized, monConfig, NamesOf(plugins), Breadcrumbs, nextId,
                         raw, options, draw, beh)
  IN /\ captured' = <<[entry |-> entry, args |-> args, raw |-> raw, options |-> options, draw |-> draw,
                       beh |-> beh, config |-> monConfig, breadcrumbs |-> Breadcrumbs,
                       log |-> r.log, built |-> r.built, out |-> r.out]>>
     /\ IF r.out # <<>>
        THEN MonitorReport(nextId, net)
        ELSE /\ raised' = FALSE
             /\ wire' = <<>>
             /\ UNCHANGED <<storeVars, batchVars, obsStore, sentBatches>>
     /\ nextId' = nextId + 1
     /\ UNCHANGED <<wiringVars, ringFields, monConfig, isInitialized, plugins, setups>>

\* capture() where the emitted records and the requests made are not kept
\* track of
MonitorCapture(entry, args, raw, options, draw, net) ==
  /\ MonitorCaptureCore(entry, args, raw, options, draw, net)
  /\ UNCHANGED <<crumbData, records, web>>

\* `if (this.isInitialized) plugin.setup?.(this)`
SetupOnUse(init, count) == IF init THEN count + 1 ELSE count

\* use(plugin): this.plugins.push(plugin), and setup when initialized
MonitorUse(plugin) ==
  /\ plugins' = Append(plugins, plugin)
  /\ setups' = [setups EXCEPT ![plugin.name] = SetupOnUse(isInitialized, @)]
  /\ captured' = NoCapture
  /\ raised' = FALSE
  /\ wire' = <<>>
  /\ UNCHANGED <<storeVars, batchVars, wiringVars, obsStore, nextId, sentBatches,
                 isInitialized, monConfig, ringVars>>

\* ErrorMonitor.init(): a second call returns at `if (this.isInitialized)`
MonitorInit ==
  IF isInitialized
  THEN UNCHANGED <<isInitialized, setups>>
  ELSE /\ isInitialized' = TRUE
       /\ setups' = [p \in PluginNames |->
                       IF p \in Range(NamesOf(plugins)) THEN setups[p] + 1 ELSE setups[p]]

\* ------------------------------------------- the capture path on its own ----
\* two plugins whose hooks are there and return undefined
PlainPlugins ==
  <<Plugin("p1", "undefined", "undefined", "undefined"),
    Plugin("p2", "undefined", "undefined", "undefined")>>

\* the events the owner captures: Error instances, and ErrorType objects
\* with and without a context
RawEvents ==
  {[isError |-> TRUE, type |-> Unset, message |-> m, context |-> EmptyMap] : m \in {"A", "B"}}
    \cup {[isError |-> FALSE, type |-> "js", message |-> m, context |-> c] :
            m \in {"A", "B"}, c \in {EmptyMap, [url |-> "X", k1 |-> "ev"]}}

\* the options the owner passes
OptionInputs ==
  {EmptyMap,
   [level |-> "fatal", tags |-> [k1 |-> "opt"], extra |-> [k1 |-> "opt"],
    user |-> [id |-> "u-opt"]],
   [skipFilter |-> TRUE],
   [skipSampling |-> TRUE]}

\* Math.random() is in [0, 1)
Draws == 0..(RateScale - 1)

InitCapture ==
  /\ InitStoreFields([maxCacheSize |-> MonitorMaxCacheSize, enabled |-> TRUE], TRUE, TRUE)
  /\ InitBatchIdle
  /\ hasBatchQueue \in BOOLEAN
  /\ transport = "beacon"
  /\ destroyed = FALSE
  /\ InitRingIdle
  /\ \E urls \in SUBSET {"X"} : monConfig = [MonitorConfig EXCEPT !.ignoreUrls = urls]
  /\ isInitialized = TRUE
  /\ plugins = PlainPlugins
  /\ setups = [p \in PluginNames |-> 1]
  /\ web = WebNew
  /\ captured = NoCapture
  /\ InitObs

\* what a step that is no capture() leaves alone
othersOfCapture ==
  <<storeVars, batchVars, wiringVars, obsStore, nextId, sentBatches,
    isInitialized, plugins, setups, web>>

NotACapture ==
  /\ captured' = NoCapture
  /\ raised' = FALSE
  /\ wire' = <<>>

Capture ==
  /\ nextId <= MaxCaptures
  /\ NoActivePass
  /\ \E raw \in RawEvents, options \in OptionInputs, draw \in Draws,
        net \in NetOutcomes(transport) :
        MonitorCapture("capture", <<raw, options>>, raw, options, draw, net)

\* enable()
Enable ==
  /\ monConfig' = [monConfig EXCEPT !.enabled = TRUE]
  /\ NotACapture
  /\ UNCHANGED <<othersOfCapture, ringVars>>

\* disable()
Disable ==
  /\ monConfig' = [monConfig EXCEPT !.enabled = FALSE]
  /\ NotACapture
  /\ UNCHANGED <<othersOfCapture, ringVars>>

\* addFilter(pattern): ignoreErrors.push(pattern)
AddFilter ==
  /\ \E pattern \in {"A"} : monConfig' = [monConfig EXCEPT !.ignoreErrors = @ \cup {pattern}]
  /\ NotACapture
  /\ UNCHANGED <<othersOfCapture, ringVars>>

\* setErrorSampleRate(rate): clamped to [0, 1]
SetErrorSampleRate ==
  /\ \E rate \in 0..RateScale : monConfig' = [monConfig EXCEPT !.errorSampleRate = rate]
  /\ NotACapture
  /\ UNCHANGED <<othersOfCapture, ringVars>>

\* addBreadcrumb(crumb): breadcrumbs.push
AddBreadcrumb ==
  /\ Len(ringLog) < MaxCapacity + 1
  /\ RingPush(Len(ringLog) + 1)
  /\ NotACapture
  /\ UNCHANGED <<othersOfCapture, monConfig>>

NextCapture ==
  Capture \/ Enable \/ Disable \/ AddFilter \/ SetErrorSampleRate \/ AddBreadcrumb

SpecCapture == InitCapture /\ [][NextCapture]_vars

\* --------------------------------------- breadcrumbs inside records ----
\* capture() whose record is followed: `breadcrumbs:
\* this.breadcrumbs.toArray()` is a new array of the ring's own objects
CaptureKept ==
  /\ nextId <= MaxCaptures
  /\ NoActivePass
  /\ \E raw \in RawEvents, net \in NetOutcomes(transport) :
        MonitorCaptureCore("capture", <<raw, EmptyMap>>, raw, EmptyMap, 0, net)
  /\ records' = IF captured'[1].out # <<>>
                THEN Append(records, BreadcrumbsOf(Breadcrumbs))
                ELSE records
  /\ UNCHANGED <<crumbData, web>>

\* code holding emitted record i (an afterCapture hook given it, the
\* sender) writes to a field of breadcrumb j of it:
\* `report.breadcrumbs[j].message = ...`
WriteCrumb ==
  /\ \E i \in 1..Len(records) : \E j \in 1..Len(records[i]) :
        /\ crumbData[records[i][j]] = "pushed"
        /\ crumbData' = [crumbData EXCEPT ![records[i][j]] = "written"]
  /\ NotACapture
  /\ UNCHANGED <<othersOfCapture, monConfig, ringFields, records>>

NextCrumbs == AddBreadcrumb \/ CaptureKept \/ WriteCrumb

SpecCrumbs == InitCapture /\ [][NextCrumbs]_vars

\* ------------------------------------------------ the hooks of capture ----
InitHooks ==
  /\ InitStoreFields([maxCacheSize |-> MonitorMaxCacheSize, enabled |-> TRUE], TRUE, TRUE)
  /\ InitBatchIdle
  /\ hasBatchQueue = TRUE
  /\ transport = "beacon"
  /\ destroyed = FALSE
  /\ InitRingIdle
  /\ InitCaptureIdle
  /\ InitObs

\* the owner registers a plugin it has not registered yet
Use ==
  /\ \E name \in PluginNames \ Range(NamesOf(plugins)),
        bc \in BeforeCaptureKinds, ac \in AfterCaptureKinds, br \in BeforeReportKinds :
        MonitorUse(Plugin(name, bc, ac, br))
  /\ UNCHANGED web

\* capture(new Error("A")) with the registered plugins
CaptureHooked ==
  /\ nextId <= MaxCaptures
  /\ \E net \in NetOutcomes(transport) :
        LET error == [isError |-> TRUE, type |-> Unset, message |-> "A",
                      context |-> EmptyMap]
        IN MonitorCapture("capture", <<error, EmptyMap>>, error, EmptyMap, 0, net)

NextHooks == Use \/ CaptureHooked

SpecHooks == InitHooks /\ [][NextHooks]_vars

\* ----------------------------------------------------- ErrorMonitorWeb ----
\* The listeners one init() adds with trackedAddEventListener: 'error'
\* (setupJsErrorHandler), 'unhandledrejection' (setupPromiseErrorHandler)
\* and 'error' in the capture phase (setupResourceErrorHandler)
InitListeners == <<"error", "unhandledrejection", "error">>

\* The web fields after init(): the handlers are set up after super.init()
\* whether or not it returned early; setupNetworkErrorHandler does
\* `this.originalFetch = window.fetch` and makes window.fetch a new wrapper
\* (window.XMLHttpRequest and originalXHR go the same way)
WebAfterInit(w) ==
  [inits |-> w.inits + 1,
   eventListeners |-> w.eventListeners \o InitListeners,
   originalFetch |-> w.windowFetch,
   windowFetch |-> w.inits + 1,
   inFlight |-> w.inFlight,
   detector |-> w.detector]

\* `if (this.originalFetch && window.fetch !== this.originalFetch)
\*    window.fetch = this.originalFetch`
RestoredFetch(w) ==
  IF w.originalFetch # NoFunction /\ w.windowFetch # w.originalFetch
  THEN w.originalFetch ELSE w.windowFetch

\* the web fields after destroy(): every tracked listener removed
WebAfterDestroy(w) ==
  [w EXCEPT !.eventListeners = <<>>, !.windowFetch = RestoredFetch(w)]

InitWeb ==
  /\ InitStoreFields([maxCacheSize |-> MonitorMaxCacheSize, enabled |-> TRUE], TRUE, TRUE)
  /\ InitBatchIdle
  /\ hasBatchQueue = TRUE
  /\ transport = "beacon"
  /\ destroyed = FALSE
  /\ InitRingIdle
  /\ \E patterns \in SUBSET {"A"}, rate \in 0..RateScale :
        monConfig = [MonitorConfig EXCEPT !.ignoreErrors = patterns,
                                          !.errorSampleRate = rate]
  /\ isInitialized = FALSE
  /\ plugins = <<>>
  /\ setups = [p \in PluginNames |-> 0]
  /\ web = WebNew
  /\ captured = NoCapture
  /\ InitObs

\* init()
WebInit ==
  /\ ~destroyed
  /\ web.inits < MaxInits
  /\ MonitorInit
  /\ web' = WebAfterInit(web)
  /\ NotACapture
  /\ UNCHANGED <<storeVars, batchVars, wiringVars, obsStore, nextId, sentBatches,
                 plugins, monConfig, ringVars>>

\* use(plugin) of a plugin with a setup() and hooks that return undefined
WebUse ==
  /\ ~destroyed
  /\ \E name \in PluginNames \ Range(NamesOf(plugins)) :
        MonitorUse(Plugin(name, "undefined", "undefined", "undefined"))
  /\ UNCHANGED web

\* destroy(): listeners removed, fetch restored, then super.destroy()
WebDestroy ==
  /\ web' = WebAfterDestroy(web)
  /\ ErrorMonitorDestroy

\* captureError(error, context): capture({type: 'custom', message, stack,
\* context}) with no options; the second argument is what the caller passes
WebCaptureError ==
  /\ ~destroyed
  /\ nextId <= MaxCaptures
  /\ NoActivePass
  /\ \E message \in {"A", "B"}, context \in OptionInputs, draw \in Draws,
        net \in NetOutcomes(transport) :
        MonitorCapture("captureError", <<message, context>>,
                       [isError |-> FALSE, type |-> "custom", message |-> message,
                        context |-> context],
                       EmptyMap, draw, net)

\* captureMessage(message, level): capture({type: 'custom', message,
\* context: {level}}) with no options
WebCaptureMessage ==
  /\ ~destroyed
  /\ nextId <= MaxCaptures
  /\ NoActivePass
  /\ \E message \in {"A", "B"}, level \in {"info", "warn"}, draw \in Draws,
        net \in NetOutcomes(transport) :
        MonitorCapture("captureMessage", <<message, level>>,
                       [isError |-> FALSE, type |-> "custom", message |-> message,
                        context |-> [level |-> level]],
                       EmptyMap, draw, net)

NextWeb == WebInit \/ WebUse \/ WebDestroy \/ WebCaptureError \/ WebCaptureMessage

SpecWeb == InitWeb /\ [][NextWeb]_vars

\* ------------------------------------------ capture() at any moment ----
\* capture() by the owner, before init(), between init() and destroy(), or
\* after destroy()
LifeCapture ==
  /\ nextId <= MaxCaptures
  /\ NoActivePass
  /\ \E raw \in RawEvents, draw \in Draws, net \in NetOutcomes(transport) :
        MonitorCapture("capture", <<raw, EmptyMap>>, raw, EmptyMap, draw, net)

NextLife == WebInit \/ WebUse \/ WebDestroy \/ LifeCapture

SpecLife == InitWeb /\ [][NextLife]_vars

\* ------------------------------------------------ BlankScreenDetector ----
\* window.setTimeout: a handle no pending timeout of the detector has
DetHandle(tms) == CHOOSE h \in 1..(Cardinality(tms) + 1) : h \notin tms

\* start(callback): `this.timerId = window.setTimeout(() =>
\* this.performCheck(callback), detectionDelay)`; a timeout set earlier is
\* not cleared
DetectorStart(d) ==
  [d EXCEPT !.timerId = DetHandle(d.timers),
            !.timers = @ \cup {DetHandle(d.timers)},
            !.running = TRUE,
            !.starts = @ + 1]

\* stop(): `if (this.timerId !== null) { clearTimeout(this.timerId);
\* this.timerId = null }`
DetectorStop(d) ==
  [d EXCEPT !.timers = IF d.timerId # 0 THEN @ \ {d.timerId} ELSE @,
            !.timerId = 0,
            !.running = FALSE]

\* performCheck(): `if (this.checkCount < this.config.maxChecks && !isBlank)`
ChecksAgain(count, maxChecks, isBlank) == count < maxChecks /\ ~isBlank

\* performCheck(callback), run by the timeout h; isBlank: what
\* checkIfBlank() finds
PerformCheck(d, h, isBlank) ==
  LET fired == d.timers \ {h}
      count == d.checkCount + 1
      first == isBlank /\ ~d.isBlankScreen
      again == ChecksAgain(count, d.maxChecks, isBlank)
  IN [d EXCEPT !.checkCount = count,
               !.isBlankScreen = IF first THEN TRUE ELSE @,
               !.calls = IF first THEN @ + 1 ELSE @,
               !.timerId = IF again THEN DetHandle(fired) ELSE @,
               !.timers = IF again THEN fired \cup {DetHandle(fired)} ELSE fired]

\* what a step of the detector leaves alone
othersOfDetector ==
  <<storeVars, batchVars, wiringVars, ringVars, obsStore, nextId, wire, sentBatches,
    raised, monConfig, isInitialized, plugins, setups, captured>>

DetStart ==
  /\ web.detector.starts < MaxStarts
  /\ web' = [web EXCEPT !.detector = DetectorStart(@)]
  /\ UNCHANGED othersOfDetector

DetStop ==
  /\ web' = [web EXCEPT !.detector = DetectorStop(@)]
  /\ UNCHANGED othersOfDetector

DetTimer ==
  /\ \E h \in web.detector.timers, isBlank \in BOOLEAN :
        web' = [web EXCEPT !.detector = PerformCheck(@, h, isBlank)]
  /\ UNCHANGED othersOfDetector

NextDetector == DetStart \/ DetStop \/ DetTimer

\* a detector whose owner calls start() and stop() at any moment and
\* never reset()
SpecDetector == InitBatch /\ [][NextDetector]_vars

\* ----------------------------------- the monitor's own fetch calls ----
\* The page has no navigator.sendBeacon: sendToServerDirectly and
\* sendBatchToServer call `fetch(this.config.dsn, ...)`, which is
\* window.fetch as it is at that moment.  A call in flight: the function
\* that was called and what the network is going to answer.
Fetched(w, payload, net) ==
  IF transport = "fetch" /\ payload # <<>>
  THEN [w EXCEPT !.inFlight = Append(@, [fn |-> w.windowFetch, net |-> net])]
  ELSE w

\* the call in flight at position i has settled
Settled(w, i) ==
  [w EXCEPT !.inFlight = [k \in 1..(Len(@) - 1) |-> IF k < i THEN @[k] ELSE @[k + 1]]]

\* the wrapper's `.catch((error) => { self.capture({type: 'network', message,
\* context: {url, method, error}}); throw error })`: what it captures for
\* a failed request to the dsn
NetworkEvent ==
  [isError |-> FALSE, type |-> "network", message |-> "Network error: POST dsn",
   context |-> [url |-> "dsn", method |-> "POST"]]

\* the wrapper installed by setupNetworkErrorHandler captures every
\* rejection; the browser's fetch captures nothing
WrapperCaptures(fn, net) == fn # Native /\ net = "fail"

InitFeedback ==
  /\ InitStoreFields([maxCacheSize |-> MonitorMaxCacheSize, enabled |-> TRUE], TRUE, TRUE)
  /\ InitBatchIdle
  /\ hasBatchQueue \in BOOLEAN
  /\ transport = "fetch"
  /\ destroyed = FALSE
  /\ InitRingIdle
  /\ monConfig = MonitorConfig
  /\ isInitialized = FALSE
  /\ plugins = <<>>
  /\ setups = [p \in PluginNames |-> 0]
  /\ web = WebNew
  /\ captured = NoCapture
  /\ InitObs

\* init(), once
FeedbackInit ==
  /\ web.inits = 0
  /\ WebInit

\* capture() by the owner
FeedbackCapture ==
  /\ nextId <= MaxCaptures
  /\ \E raw \in RawEvents, net \in NetOutcomes(transport) :
        /\ MonitorCaptureCore("capture", <<raw, EmptyMap>>, raw, EmptyMap, 0, net)
        /\ web' = Fetched(web, wire', net)
  /\ UNCHANGED <<crumbData, records>>

\* the BatchQueue's timeout expires
FeedbackTimeout ==
  /\ raised' = FALSE
  /\ \E h \in timers, net \in NetOutcomes(transport) :
        /\ MonitorBatchFlush(BqTimeout(h), net)
        /\ web' = Fetched(web, wire', net)
  /\ captured' = NoCapture
  /\ UNCHANGED <<nextId, wiringVars, ringVars, monConfig, isInitialized, plugins, setups>>

\* the promise of a fetch call of the monitor settles
FetchSettles ==
  \E i \in 1..Len(web.inFlight) :
    IF WrapperCaptures(web.inFlight[i].fn, web.inFlight[i].net)
    THEN /\ nextId <= MaxCaptures
         /\ \E net \in NetOutcomes(transport) :
               /\ MonitorCaptureCore("fetch", <<NetworkEvent>>, NetworkEvent, EmptyMap, 0, net)
               /\ web' = Fetched(Settled(web, i), wire', net)
         /\ UNCHANGED <<crumbData, records>>
    ELSE /\ web' = Settled(web, i)
         /\ NotACapture
         /\ UNCHANGED <<storeVars, batchVars, wiringVars, obsStore, nextId, sentBatches,
                        isInitialized, plugins, setups, monConfig, ringVars>>

NextFeedback == FeedbackInit \/ FeedbackCapture \/ FeedbackTimeout \/ FetchSettles

SpecFeedback == InitFeedback /\ [][NextFeedback]_vars

\* ============================================================= claims ====
Last(s) == s[Len(s)]
Front(s) == SubSeq(s, 1, Len(s) - 1)
\* a step in which send() was called (for the report nextId)
SendStep == handed' # handed
\* reports in the batches handed to the BatchQueue sender so far
Batched == UNION {Range(sentBatches[i]) : i \in 1..Len(sentBatches)}

\* C1: every report handed to OfflineCache.send is still in the cached
\* queue unless Transport succeeded for it, cache() evicted it, or it was
\* dropped for exceeding the retry limit; in particular a report whose
\* Transport attempt fails while the store is online is kept for a retry.
C1_NoSilentLoss ==
  \A x \in handed :
    x \in Range(cacheQueue) \/ x \in delivered \/ x \in evicted \/ x \in dropped

\* C2: in a monitor with a BatchQueue, every report in a flushed batch was
\* handed to OfflineCache.send, and nothing is handed to Transport by a
\* step that leaves the store offline.
C2_BatchesGoThroughStore ==
  hasBatchQueue => /\ Batched \subseteq handed
                   /\ (~isOnline => wire = <<>>)

\* C3: two retry passes are never suspended on a Transport attempt for
\* the same cached report: a pass started while another is in flight does
\* not attempt the report the first one is waiting for.
C3_NoDoubleAttempt ==
  \A p, q \in PassIds :
    (p # q /\ Active(p) /\ Active(q)) => Cur(p) # Cur(q)

\* C5: the cached queue never holds more than maxCacheSize reports, also
\* right after a load from storage, and cache() on a full queue removes
\* exactly the oldest report and puts the new one at the tail.
C5_Bound == Len(cacheQueue) <= config.maxCacheSize
C5_Evict ==
  (SendStep /\ ~isOnline /\ Len(cacheQueue) = config.maxCacheSize)
    => /\ cacheQueue' = Append(Tail(cacheQueue), nextId)
       /\ evicted' = evicted \cup {Head(cacheQueue)}
C5_BoundedFifo == []C5_Bound /\ [][C5_Evict]_vars
\* maxCacheSize = 2, reports 1, 2, 3 cached: the queue is [2, 3], 1 evicted
C5_Witness ==
  /\ config.maxCacheSize = 2
  /\ cacheQueue = <<2, 3>>
  /\ evicted = {1}

\* C7: send(x) while online hands exactly x to Transport, once, and leaves
\* the cached queue, its counters and the storage entry as they were.
C7_Step ==
  (SendStep /\ isOnline)
    => /\ wire' = <<nextId>>
       /\ cacheQueue' = cacheQueue
       /\ retryCount' = retryCount
       /\ storage' = storage
C7_OnlineSendDirect == [][C7_Step]_vars
\* report 2 was sent online while report 1 sat in the queue and in storage
C7_Witness ==
  /\ isOnline /\ NoActivePass
  /\ wire = <<2>>
  /\ cacheQueue = <<1>>
  /\ storage.present /\ Len(storage.items) = 1

\* a step in which the suspended flush() p went on
Resumed(p) == Active(p) /\ passes'[p] # passes[p]

\* C4: a cached report's retryCount starts at 0, goes up by exactly 1 per
\* failed attempt and never down; the report leaves the queue as soon as
\* the count exceeds the limit of 3, and once it was dropped no Transport
\* attempt is made for it again.
C4_InQueueWithinLimit == \A x \in Range(cacheQueue) : retryCount[x] \in 0..MaxRetries
C4_Step ==
  /\ \A x \in Range(cacheQueue') :
       IF x \in Range(cacheQueue)
       THEN retryCount'[x] \in {retryCount[x], retryCount[x] + 1}
       ELSE retryCount'[x] = 0
  /\ \A x \in Range(wire') : x \notin dropped
C4_RetryAccounting == []C4_InQueueWithinLimit /\ [][C4_Step]_vars

\* C6: send(x) while offline puts x at the tail of the cached queue with
\* retryCount 0 and writes the queue to storage; a change from offline to
\* online starts exactly one retry pass over the reports cached at that
\* moment, which attempts them one after the other, oldest first, and
\* removes each report whose attempt succeeds.
C6_Appended ==
  /\ cacheQueue' # <<>>
  /\ Last(cacheQueue') = nextId
  /\ \/ Front(cacheQueue') = cacheQueue
     \/ cacheQueue # <<>> /\ Front(cacheQueue') = Tail(cacheQueue)
  /\ retryCount'[nextId] = 0
C6_Persisted ==
  storage' = [present |-> TRUE,
              items |-> [i \in 1..Len(cacheQueue') |->
                           [report |-> cacheQueue'[i],
                            retryCount |-> retryCount'[cacheQueue'[i]]]]]
C6_OnlineStep ==
  (~isOnline /\ isOnline')
    => /\ cacheQueue' = cacheQueue
       /\ IF cacheQueue = <<>>
          THEN passes' = passes /\ wire' = <<>>
          ELSE /\ wire' = <<Head(cacheQueue)>>
               /\ \E p \in PassIds :
                    /\ ~Active(p)
                    /\ passes' = [passes EXCEPT ![p] = [snap |-> cacheQueue, idx |-> 1]]
C6_PassOrder ==
  \A p \in PassIds :
    Resumed(p) =>
      IF passes[p].idx = Len(passes[p].snap)
      THEN passes'[p] = NoPass /\ wire' = <<>>
      ELSE /\ passes'[p] = [snap |-> passes[p].snap, idx |-> passes[p].idx + 1]
           /\ wire' = <<passes[p].snap[passes[p].idx + 1]>>
C6_RemovedOnSuccess ==
  \A p \in PassIds :
    (Resumed(p) /\ Cur(p) \in delivered' \ delivered) => Cur(p) \notin Range(cacheQueue')
C6_Pass == C6_OnlineStep /\ C6_PassOrder /\ C6_RemovedOnSuccess
\* the statement as it stands: the queue is written to storage on every
\* offline send
C6_OfflineThenRetry ==
  [][ /\ (SendStep /\ ~isOnline) => (C6_Appended /\ C6_Persisted)
      /\ C6_Pass ]_vars
\* C6, amended: the queue is written when localStorage works; when it does
\* not, the entry is left as it was and the report is kept in memory only.
C6_OfflineThenRetryIfStorage ==
  [][ /\ (SendStep /\ ~isOnline)
         => /\ C6_Appended
            /\ IF storageUp THEN C6_Persisted ELSE storage' = storage
      /\ C6_Pass ]_vars
\* queue [2, 3] when connectivity came back: 2 was attempted first and
\* removed on success, 3 is being attempted
C6_Witness ==
  /\ isOnline
  /\ evicted = {1}
  /\ passes[1] = [snap |-> <<2, 3>>, idx |-> 2]
  /\ wire = <<3>>
  /\ 2 \in delivered
  /\ cacheQueue = <<3>>

\* C8: when the Transport attempt a retry pass waited for did not deliver
\* the report, the report stays in the cached queue with its retryCount
\* one higher (or is dropped for exceeding the limit); it is not removed
\* as if it had been delivered.
C8_Step ==
  \A p \in PassIds :
    (Resumed(p) /\ Cur(p) \notin delivered' /\ Cur(p) \in Range(cacheQueue))
      => \/ /\ Cur(p) \in Range(cacheQueue')
            /\ retryCount'[Cur(p)] = retryCount[Cur(p)] + 1
         \/ Cur(p) \in dropped'
C8_FailureIsAccounted == [][C8_Step]_vars

\* C9: an add that brings the queue to batchSize hands the whole queue, in
\* insertion order, to the sender in one call and leaves the queue empty;
\* an add that leaves it shorter calls no sender and keeps the reports
\* queued in order.  The queue never holds batchSize reports.
C9_Below == Len(queue) < BatchSizeCfg
C9_AddStep ==
  (nextId' # nextId) =>
    IF Len(queue) + 1 = BatchSizeCfg
    THEN /\ sentBatches' = Append(sentBatches, Append(queue, nextId))
         /\ queue' = <<>>
    ELSE /\ sentBatches' = sentBatches
         /\ queue' = Append(queue, nextId)
C9_FlushAtBatchSize == []C9_Below /\ [][C9_AddStep]_vars
\* batchSize = 3: reports 1, 2, 3 added, one batch [1, 2, 3], queue empty
C9_Witness ==
  /\ BatchSizeCfg = 3
  /\ nextId = 4
  /\ sentBatches = << <<1, 2, 3>> >>
  /\ queue = <<>>

\* C10: a non-empty queue always has its delayed flush pending; when the
\* timeout expires with k < batchSize reports queued, exactly those k go to
\* the sender, in order and in one call; so, timers firing, every report
\* added is eventually handed to the sender.
C10_TimerPending == queue # <<>> => (timerId # 0 /\ timerId \in timers)
C10_TimeoutStep ==
  (nextId' = nextId /\ queue # <<>>)
    => /\ sentBatches' = Append(sentBatches, queue)
       /\ queue' = <<>>
C10_DelayedFlush ==
  /\ []C10_TimerPending
  /\ [][C10_TimeoutStep]_vars
  /\ \A x \in 1..MaxAdds : (nextId > x) ~> (x \in Batched)
\* reports 1 and 2 added, the timeout expired: one batch [1, 2]
C10_Witness ==
  /\ nextId = 3
  /\ sentBatches = << <<1, 2>> >>
  /\ queue = <<>>
  /\ timers = {}


\* C11: at most one delayed-flush timeout is pending, and it is the one
\* timerId names; it is pending only while reports are queued; an add while
\* it is pending leaves the handle and the pending timeouts as they were;
\* every flush that hands over a batch leaves no timeout pending.
C11_OneTimer ==
  /\ timers = (IF timerId = 0 THEN {} ELSE {timerId})
  /\ timerId # 0 => queue # <<>>
C11_Step ==
  /\ (nextId' # nextId /\ timerId # 0 /\ queue' # <<>>)
       => (timerId' = timerId /\ timers' = timers)
  /\ (sentBatches' # sentBatches) => (timerId' = 0 /\ timers' = {})
C11_SingleTimer == []C11_OneTimer /\ [][C11_Step]_vars
\* two reports added below batchSize: one timeout, set by the first add
C11_Witness ==
  /\ queue = <<1, 2>>
  /\ timerId = 1
  /\ timers = {1}


\* C12: flush() on an empty queue calls no sender and leaves the queue
\* empty, so a second flush() right after a flush() changes nothing; no
\* empty batch is ever handed to the sender, and after a flush triggered by
\* batchSize no timeout is left to fire.
C12_NoEmptyBatch == \A i \in 1..Len(sentBatches) : sentBatches[i] # <<>>
C12_Step ==
  /\ (nextId' = nextId /\ queue = <<>>)
       => (sentBatches' = sentBatches /\ queue' = <<>>)
  /\ (nextId' # nextId /\ sentBatches' # sentBatches) => timers' = {}
C12_EmptyFlushNoOp == []C12_NoEmptyBatch /\ [][C12_Step]_vars
\* report 1 added and flushed by a page-hide signal: the queue is empty and
\* the next flush() finds nothing to send
C12_Witness ==
  /\ nextId = 2
  /\ sentBatches = << <<1>> >>
  /\ queue = <<>>
  /\ timerId = 0


\* the batches of a log of sender calls, joined in call order
RECURSIVE Concat(_)
Concat(bs) == IF bs = <<>> THEN <<>> ELSE Concat(Front(bs)) \o Last(bs)

\* C13: the batches handed to the sender, joined in call order and followed
\* by the reports still queued, are the reports added so far in the order
\* they were added (each report once); and every flush that calls the
\* sender leaves the queue empty.
C13_InOrderOnce == Concat(sentBatches) \o queue = [i \in 1..(nextId - 1) |-> i]
C13_Drains == (sentBatches' # sentBatches) => queue' = <<>>
C13_OrderedExactlyOnce == []C13_InOrderOnce /\ [][C13_Drains]_vars
\* reports 1, 2 flushed by the timeout, 3 by a page-hide signal, 4 queued
C13_Witness ==
  /\ sentBatches = << <<1, 2>>, <<3>> >>
  /\ queue = <<4>>


\* C14: a page-hide / before-unload signal, and destroy(), hand every
\* report queued at that moment to the sender in one batch, in order, and
\* leave the queue empty with no timeout pending: a flush that is not asked
\* for by add never leaves a report behind.
C14_SignalStep ==
  (nextId' = nextId /\ queue # <<>>)
    => /\ sentBatches' = Append(sentBatches, queue)
       /\ queue' = <<>>
       /\ timers' = {}
C14_DestroyStep ==
  (destroyed' # destroyed)
    => /\ queue' = <<>>
       /\ Concat(sentBatches') = [i \in 1..(nextId - 1) |-> i]
C14_FlushOnUnload == [][C14_SignalStep /\ C14_DestroyStep]_vars
\* reports 1 and 2 were queued when destroy() was called
C14_Witness ==
  /\ destroyed
  /\ nextId = 3
  /\ sentBatches = << <<1, 2>> >>
  /\ queue = <<>>


\* C15: destroy() leaves no delayed-flush timeout pending, and once the
\* monitor is destroyed no page-hide or connectivity signal changes the
\* connectivity flag, starts a retry pass, flushes a batch or hands
\* anything to Transport.
C15_Step ==
  /\ destroyed' => (timerId' = 0 /\ timers' = {})
  /\ destroyed => /\ isOnline' = isOnline
                  /\ passes' = passes
                  /\ sentBatches' = sentBatches
                  /\ wire' = <<>>
C15_TeardownIsFinal == [][C15_Step]_vars


\* a pass was started by the step
PassStarted == \E p \in PassIds : ~Active(p) /\ passes'[p].idx > 0

\* C16: the connectivity flag is a boolean that says what the last
\* connectivity input said: the probe at construction, then the last
\* 'online' / 'offline' signal.  An 'offline' signal changes nothing but
\* the flag (queue, counters, storage and suspended passes stay, nothing
\* goes to Transport); a signal that starts a retry pass is an 'online'.
C16_FlagIsLastInput ==
  /\ isOnline \in BOOLEAN
  /\ isOnline = (signal \in {"probe-online", "online"})
C16_Step ==
  /\ (signal' = "offline" /\ signal # "offline")
       => /\ cacheQueue' = cacheQueue
          /\ retryCount' = retryCount
          /\ storage' = storage
          /\ passes' = passes
          /\ wire' = <<>>
  /\ (signal' # signal /\ PassStarted) => signal' = "online"
C16_Connectivity == []C16_FlagIsLastInput /\ [][C16_Step]_vars
\* report 1 is cached and stored; online, then offline again: the flag is
\* off, the pass started by 'online' is still suspended on report 1
C16_Witness ==
  /\ signal = "offline"
  /\ ~isOnline
  /\ cacheQueue = <<1>>
  /\ passes[1] = [snap |-> <<1>>, idx |-> 1]


\* C17: a new instance constructed where a queue was persisted (and
\* localStorage can be read) holds, before any of its methods runs, the
\* persisted reports in the persisted order with the persisted retryCounts,
\* and no retry pass of the previous page; what cache() and a completed
\* retry pass persisted is the queue they left in memory.
C17_LoadedAsPersisted ==
  (fresh /\ storage.present /\ storageUp)
    => /\ Len(cacheQueue) = Len(storage.items)
       /\ \A i \in 1..Len(cacheQueue) :
            /\ cacheQueue[i] = storage.items[i].report
            /\ retryCount[cacheQueue[i]] = storage.items[i].retryCount
       /\ NoActivePass
C17_PersistedAsHeld ==
  (storage' # storage)
    => /\ Len(storage'.items) = Len(cacheQueue')
       /\ \A i \in 1..Len(cacheQueue') :
            /\ storage'.items[i].report = cacheQueue'[i]
            /\ storage'.items[i].retryCount = retryCount'[cacheQueue'[i]]
C18_FailedLoadIsEmpty == (fresh /\ ~storageUp) => (cacheQueue = <<>> /\ NoActivePass)
C18_Step ==
  ~storageUp' =>
    /\ storage' = storage
    /\ ~raised'
    /\ (SendStep /\ ~isOnline) => C6_Appended
    /\ \A p \in PassIds :
         (Resumed(p) /\ passes[p].idx = Len(passes[p].snap)) => passes'[p] = NoPass
C19_NothingRaises == ~raised


Min(a, b) == IF a < b THEN a ELSE b
\* the last n items of s
LastN(s, n) == SubSeq(s, Len(s) - n + 1, Len(s))

\* C20: after k pushes on a ring of capacity N, toArray() is the
\* min(k, N) items pushed last, oldest first; the size never exceeds N; a
\* push on a full ring drops exactly the oldest item and puts the new one
\* last.
C20_Snapshot ==
  /\ size = Min(Len(ringLog), capacity)
  /\ size <= capacity
  /\ ToArray(buffer, head, size, capacity) = LastN(ringLog, Min(Len(ringLog), capacity))
C20_FullPush ==
  (nextId' # nextId /\ size = capacity)
    => ToArray(buffer', head', size', capacity')
         = Append(Tail(ToArray(buffer, head, size, capacity)), nextId)
C20_RingKeepsNewest == []C20_Snapshot /\ [][C20_FullPush]_vars
\* capacity 3, five pushes: the ring holds 3, 4, 5 and has wrapped around
C20_Witness ==
  /\ capacity = 3
  /\ ringLog = <<1, 2, 3, 4, 5>>
  /\ ToArray(buffer, head, size, capacity) = <<3, 4, 5>>
  /\ head = 2


\* C21: an array returned by toArray() keeps the length, order and items
\* it had when it was returned, whatever is pushed on the ring or cleared
\* afterwards.
C21_Held == SnapshotRead(snapshot) = snapshot.items
C21_Frame ==
  (snapshot' = snapshot) => SnapshotRead(snapshot)' = SnapshotRead(snapshot)
C22_Inert ==
  (captured' # NoCapture /\ monConfig.enabled = FALSE) =>
     /\ captured'[1].log = <<>>
     /\ captured'[1].built = <<>>
     /\ captured'[1].out = <<>>
     /\ wire' = <<>>
     /\ UNCHANGED <<storeVars, batchVars, ringVars, obsStore, sentBatches>>
C22_FlagInForce ==
  (/\ captured' # NoCapture
   /\ monConfig.enabled = TRUE
   /\ monConfig.ignoreErrors = {} /\ monConfig.ignoreUrls = {}
   /\ monConfig.errorSampleRate = FullRate) => captured'[1].built # <<>>
C22_DisabledCaptureIsInert == [][C22_Inert /\ C22_FlagInForce]_vars
\* a capture made while disabled, after one made while enabled that is
\* still in the BatchQueue
C22_Witness ==
  /\ captured # NoCapture
  /\ captured[1].config.enabled = FALSE
  /\ captured[1].built = <<>>
  /\ queue = <<1>>
  /\ nextId = 3

\* the context URL of the event given to capture()
RawUrl(raw) ==
  IF ~raw.isError /\ "url" \in DOMAIN raw.context THEN raw.context["url"] ELSE Unset
\* the options given to capture() ask to skip the filter / the sampling
SkipsFilter(options) == "skipFilter" \in DOMAIN options /\ options["skipFilter"]
SkipsSampling(options) == "skipSampling" \in DOMAIN options /\ options["skipSampling"]
\* the call found the monitor enabled
CapturedEnabled(c) == c.config.enabled
\* the call made no hook call, built nothing and handed nothing on
CapturedNothing(c) == c.log = <<>> /\ c.built = <<>> /\ c.out = <<>>
PipelineUntouched ==
  /\ wire' = <<>>
  /\ UNCHANGED <<storeVars, batchVars, obsStore, sentBatches>>

\* C23: an enabled capture() whose message matches a pattern of
\* ignoreErrors, or whose context URL matches a pattern of ignoreUrls,
\* calls no hook and reports nothing unless the call passes skipFilter; with
\* skipFilter the event is not dropped by the filter (it is built when every
\* event is sampled); a pattern of ignoreErrors stays there for later calls.
C23_Matches(c) ==
  \/ \E pattern \in c.config.ignoreErrors : pattern = c.raw.message
  \/ RawUrl(c.raw) # Unset /\ \E pattern \in c.config.ignoreUrls : pattern = RawUrl(c.raw)
C23_Step ==
  /\ (captured' # NoCapture /\ CapturedEnabled(captured'[1])) =>
       /\ (C23_Matches(captured'[1]) /\ ~SkipsFilter(captured'[1].options)) =>
             CapturedNothing(captured'[1]) /\ PipelineUntouched
       /\ (/\ SkipsFilter(captured'[1].options)
           /\ captured'[1].config.errorSampleRate = FullRate) =>
             captured'[1].built # <<>>
  /\ monConfig.ignoreErrors \subseteq monConfig'.ignoreErrors
ReachedSampling(c) ==
  CapturedEnabled(c) /\ ~(C23_Matches(c) /\ ~SkipsFilter(c.options))

\* C24: a capture() that reaches the sampling test with errorSampleRate 0
\* and without skipSampling builds no report, whatever Math.random()
\* returns in [0, 1); in general it is dropped there exactly when the value
\* drawn is above errorSampleRate and skipSampling is not set.
C24_SamplingDrops ==
  (captured # NoCapture /\ ReachedSampling(captured[1])) =>
     /\ (captured[1].config.errorSampleRate = 0 /\ ~SkipsSampling(captured[1].options)) =>
           captured[1].built = <<>>
     /\ (captured[1].built = <<>>) <=>
           (/\ captured[1].draw > captured[1].config.errorSampleRate
            /\ ~SkipsSampling(captured[1].options))

\* the calls of one hook in a log, and the plugins called
CallsOf(log, hook) == SelectSeq(log, LAMBDA call : call.hook = hook)
PluginsCalled(calls) == [i \in 1..Len(calls) |-> calls[i].plugin]
Position(seq, x) == CHOOSE i \in 1..Len(seq) : seq[i] = x
InOrder(calls, pl) ==
  \A i, j \in 1..Len(calls) :
     i < j => Position(pl, calls[i].plugin) < Position(pl, calls[j].plugin)
Vetoed(log) == \E i \in 1..Len(log) : log[i].returned = "null"

\* C25: the beforeCapture hooks of a capture() are called in the order the
\* plugins were registered, and when one returns null it is the last hook
\* call of the capture: nothing is built, nothing is handed on, and the
\* BatchQueue, the OfflineCache and Transport are not touched.
C25_Call(c, pl) ==
  /\ InOrder(CallsOf(c.log, "beforeCapture"), pl)
  /\ Vetoed(c.log) =>
       /\ Last(c.log).returned = "null"
       /\ \A i \in 1..Len(c.log) : c.log[i].hook = "beforeCapture"
       /\ \A i \in 1..(Len(c.log) - 1) : c.log[i].returned # "null"
       /\ c.built = <<>>
       /\ c.out = <<>>
C25_Step ==
  (captured' # NoCapture) =>
     /\ C25_Call(captured'[1], NamesOf(plugins))
     /\ Vetoed(captured'[1].log) => PipelineUntouched
C25_VetoStops == [][C25_Step]_vars
\* the plugin registered first vetoes; the second has all three hooks
C25_Witness ==
  /\ captured # NoCapture
  /\ NamesOf(plugins) = <<"p2", "p1">>
  /\ captured[1].beh.beforeCapture = <<"null", "fresh">>
  /\ captured[1].beh.afterCapture = <<"fields", "fields">>
  /\ captured[1].beh.beforeReport = <<"full", "full">>
  /\ Len(captured[1].log) = 1
  /\ captured[1].built = <<>>

\* the working copy after the first n calls of a beforeCapture chain: what
\* the last of them that returned an event returned, else the event the
\* chain started with
RECURSIVE WorkingCopy(_, _)
WorkingCopy(calls, n) ==
  IF n = 0 THEN calls[1].arg
  ELSE IF calls[n].returned = "value" THEN calls[n].result[1]
  ELSE WorkingCopy(calls, n - 1)

\* C26: in a capture() that no hook vetoes, every beforeCapture hook after
\* the first is given the working copy its predecessors left (the output of
\* the last hook that returned an event), and the report is built from the
\* working copy the last hook left, whether hooks return new objects or
\* their argument.
C26_Chain(c) ==
  LET calls == CallsOf(c.log, "beforeCapture")
  IN (Len(calls) > 0 /\ ~Vetoed(c.log)) =>
       /\ \A j \in 2..Len(calls) : calls[j].arg = WorkingCopy(calls, j - 1)
       /\ c.built # <<>>
       /\ c.built[1].marks = WorkingCopy(calls, Len(calls)).marks
C26_HooksChained == captured # NoCapture => C26_Chain(captured[1])

\* a record with the fields returned by the first n calls merged in, in order
RECURSIVE MergeAll(_, _, _)
MergeAll(record, calls, n) ==
  IF n = 0 THEN record
  ELSE Merge(MergeAll(record, calls, n - 1), calls[n].result[1])

\* C27: the record capture() hands on is the record it built with the
\* fields returned by every afterCapture hook and then by every beforeReport
\* hook merged in, in registration order: a later hook replaces an earlier
\* one's value for the same field only.
C27_Merged(c) ==
  LET calls == SelectSeq(c.log,
                 LAMBDA call : call.hook # "beforeCapture" /\ call.returned = "value")
  IN c.out # <<>> => c.out[1] = MergeAll(c.built[1], calls, Len(calls))
C27_HooksMerge == captured # NoCapture => C27_Merged(captured[1])

\* an option of the call, or its default when the call does not give it
Given(options, name, default) == IF name \in DOMAIN options THEN options[name] ELSE default
\* result has the fields of over and of base, with over's value where both
\* have the field
IsOver(result, over, base) ==
  /\ DOMAIN result = DOMAIN over \cup DOMAIN base
  /\ \A k \in DOMAIN over : result[k] = over[k]
  /\ \A k \in DOMAIN base \ DOMAIN over : result[k] = base[k]
\* the context of the event given to capture (an Error instance has none)
RawContext(raw) == IF raw.isError THEN EmptyMap ELSE raw.context

\* C28: the record capture() builds has the breadcrumbs the ring retains at
\* the call (the last `capacity` of those added so far, oldest first), the
\* level given in the options (else "error"), the given tags over the
\* configured tags, the given extra over the event's context, and the given
\* user id, else the configured one.
C28_Built(c, report) ==
  /\ report.breadcrumbs = LastN(ringLog, Min(Len(ringLog), capacity))
  /\ report.level = Given(c.options, "level", "error")
  /\ IsOver(report.tags, Given(c.options, "tags", EmptyMap), c.config.tags)
  /\ IsOver(report.extra, Given(c.options, "extra", EmptyMap), RawContext(c.raw))
  /\ report.userId = IF "id" \in DOMAIN Given(c.options, "user", EmptyMap)
                     THEN c.options["user"]["id"] ELSE c.config.userId
C28_RecordBuilt ==
  (captured # NoCapture /\ captured[1].built # <<>>) =>
     C28_Built(captured[1], captured[1].built[1])
\* every option given, an event with a context, and a ring that has
\* overwritten its oldest breadcrumb
C28_Witness ==
  /\ captured # NoCapture
  /\ captured[1].built # <<>>
  /\ "level" \in DOMAIN captured[1].options
  /\ "k1" \in DOMAIN RawContext(captured[1].raw)
  /\ captured[1].built[1].extra["k1"] = "opt"
  /\ captured[1].built[1].tags = [k1 |-> "opt", k2 |-> "cfg"]
  /\ captured[1].built[1].userId = "u-opt"
  /\ Len(ringLog) > capacity
  /\ Len(captured[1].built[1].breadcrumbs) = capacity

\* C29: until destroy(), every registered plugin has had its setup() called
\* exactly once when the monitor is initialized and never before; an init()
\* of an ErrorMonitorWeb that is already initialized adds no listener and
\* does not wrap fetch again; after destroy() window.fetch is the browser's
\* function again.
C29_SetupOnce ==
  ~destroyed =>
     \A i \in 1..Len(plugins) :
        setups[plugins[i].name] = IF isInitialized THEN 1 ELSE 0
C29_SecondInit ==
  (web'.inits > web.inits /\ isInitialized) =>
     /\ web'.eventListeners = web.eventListeners
     /\ web'.windowFetch = web.windowFetch
C29_Restored == destroyed => web.windowFetch = Native
C29_InitOnce == []C29_SetupOnce /\ [][C29_SecondInit]_vars /\ []C29_Restored

\* what the filter and the sampling may drop, for a caller asking `asked`
MayBeDropped(c, asked) ==
  \/ (\E pattern \in c.config.ignoreErrors : pattern = c.raw.message) /\ ~SkipsFilter(asked)
  \/ c.draw > c.config.errorSampleRate /\ ~SkipsSampling(asked)

\* C30: on an initialized, enabled ErrorMonitorWeb, captureError(error,
\* options) builds a report unless the filter or the sampling drops it,
\* which they do not when the options skip them, and the report has the
\* level, tags and extra of the options; captureMessage(message, level)
\* builds a report whose level is the level given.
C30_CaptureError(c) ==
  LET asked == c.args[2]
  IN ~MayBeDropped(c, asked) =>
       /\ c.built # <<>>
       /\ c.built[1].level = Given(asked, "level", "error")
       /\ IsOver(c.built[1].tags, Given(asked, "tags", EmptyMap), c.config.tags)
       /\ IsOver(c.built[1].extra, Given(asked, "extra", EmptyMap), EmptyMap)
C30_CaptureMessage(c) ==
  ~MayBeDropped(c, EmptyMap) => c.built # <<>> /\ c.built[1].level = c.args[2]
C30_WebEntryPoints ==
  (captured # NoCapture /\ isInitialized /\ CapturedEnabled(captured[1])) =>
     /\ captured[1].entry = "captureError" => C30_CaptureError(captured[1])
     /\ captured[1].entry = "captureMessage" => C30_CaptureMessage(captured[1])

\* C31: every option has the effect of the value given: the BatchQueue
\* never holds batchSize reports, a timeout it has pending was set with the
\* given delay (0 included), the OfflineCache bounds its queue at the given
\* maxCacheSize, and a report is dropped exactly when its failed attempts
\* exceed the given maxRetries.
C31_BatchSize == Len(queue) < given.batchSize
C31_Delay == timerId # 0 => bqConfig.delay = given.delay
C31_MaxCacheSize == config.maxCacheSize = given.maxCacheSize
C31_MaxRetries ==
  \A n \in 0..(MaxRetries + 1) : RetryLimitExceeded(n) <=> n > given.maxRetries
C31_OptionsTakeEffect ==
  C31_BatchSize /\ C31_Delay /\ C31_MaxCacheSize /\ C31_MaxRetries

\* C32: whenever no retry pass is in progress and storage writes succeed,
\* the persisted array equals the in-memory cacheQueue (same items, same
\* order, same retryCounts); a step of a retry pass writes storage only
\* when it ends the pass, and then writes the queue as it is.
C32_Match ==
  (NoActivePass /\ storageUp) => storage.items = Serialize(cacheQueue, retryCount)
C32_PassStep(p) ==
  /\ Active(p)
  /\ ~fresh'
  /\ passes'[p] # passes[p]
C32_SavesAtEnd ==
  \A p \in PassIds :
    C32_PassStep(p) =>
      IF Active(p)'
      THEN storage' = storage
      ELSE storageUp => storage' = [present |-> TRUE,
                                    items |-> Serialize(cacheQueue', retryCount')]
C32_PersistedMatches == [](C32_Match) /\ [][C32_SavesAtEnd]_vars
\* a pass has ended leaving a report that failed once, and it is persisted
C32_Witness ==
  /\ NoActivePass /\ storageUp /\ ~fresh
  /\ \E i \in 1..Len(cacheQueue) : retryCount[cacheQueue[i]] > 0
  /\ storage.present

\* what a holder reads in an array of breadcrumb references
CrumbsRead(refs) == [j \in 1..Len(refs) |-> crumbData[refs[j]]]

\* C33: the breadcrumbs of a record are copies: a write to a breadcrumb
\* inside an emitted record changes neither what the ring's breadcrumbs
\* hold nor what any other record's breadcrumbs hold.
C33_RingUntouched == CrumbsRead(Breadcrumbs)' = CrumbsRead(Breadcrumbs)
C33_OneRecordAtMost ==
  \A i, k \in 1..Len(records) :
    (/\ i # k
     /\ CrumbsRead(records[i])' # CrumbsRead(records[i]))
      => CrumbsRead(records[k])' = CrumbsRead(records[k])
C33_CrumbsCopied ==
  [][(crumbData' # crumbData) => (C33_RingUntouched /\ C33_OneRecordAtMost)]_vars

\* how many of the arrays handed to the BatchQueue sender hold report x
TimesSent(x) ==
  Cardinality({i \in 1..Len(sentBatches) : x \in Range(sentBatches[i])})

\* C34: when the sender called by flush() calls add() on the same queue, no
\* report is lost and none is delivered twice: every report added so far is
\* either still queued and in no batch, or in exactly one batch.
C34_ReentrantAddSafe ==
  \A x \in 1..(nextId - 1) :
    \/ x \in Range(queue) /\ TimesSent(x) = 0
    \/ x \notin Range(queue) /\ TimesSent(x) = 1

\* C35: the reports an OfflineCache constructed online recovered from
\* storage are eventually handed to Transport by a retry pass that starts
\* by itself: from a newly constructed online instance with a non-empty
\* queue, a retry pass gets under way (or the host or the owner acts first).
C35_RecoveredAreRetried ==
  (fresh /\ isOnline /\ Len(cacheQueue) > 0) ~> (~fresh \/ ~NoActivePass)

\* C36: a failed transmission of one of the monitor's own reports never
\* produces a new captured event: no record is emitted for a network
\* event about a request to the dsn.
C36_NoFeedback ==
  captured # NoCapture =>
    ~(/\ captured[1].raw.type = "network"
      /\ ContextUrl(captured[1].raw) = "dsn"
      /\ captured[1].out # <<>>)

\* the reports in the stored array
StoredReports == {storage.items[i].report : i \in 1..Len(storage.items)}

\* C37: with two live instances on one storage key, a report cached by
\* either stays in storage until it is delivered, evicted or dropped (that
\* is, while its instance still has it queued): the other instance's
\* write does not erase it.
C37_SharedKeyKeepsItems ==
  storageUp => (Range(cacheQueue) \cup Range(peer)) \subseteq StoredReports

\* C38: a capture() made while the monitor is not initialized (before
\* init(), or after destroy()) calls no hook, builds no record and hands
\* nothing to the BatchQueue, the OfflineCache or Transport.
C38_Inert ==
  (captured' # NoCapture /\ ~isInitialized) =>
     /\ CapturedNothing(captured'[1])
     /\ PipelineUntouched
     /\ UNCHANGED ringVars
C38_NoReportUnlessInitialized == [][C38_Inert]_vars
\* a capture after destroy(), which flushed a report captured while the
\* monitor was initialized
C38_Witness ==
  /\ captured # NoCapture
  /\ destroyed /\ ~isInitialized
  /\ web.inits > 0
  /\ Len(sentBatches) > 0
\* a capture before init(), with a plugin registered
C38_WitnessBefore ==
  /\ captured # NoCapture
  /\ web.inits = 0
  /\ Len(plugins) > 0

\* C39: after stop() and until start() is called again, no check runs and
\* the callback is not invoked, whatever start() and stop() calls came
\* before.
C39_Stopped ==
  ~web.detector.running =>
     /\ web'.detector.checkCount = web.detector.checkCount
     /\ web'.detector.calls = web.detector.calls
C39_StopStopsChecks == [][C39_Stopped]_vars

\* C40: without reset(), checkCount never exceeds maxChecks, the callback
\* is invoked at most once, and no check is scheduled once checkCount has
\* reached maxChecks or a blank screen was found.
C40_Bounded ==
  /\ web.detector.checkCount <= web.detector.maxChecks
  /\ web.detector.calls <= 1
C40_NothingScheduled ==
  (web.detector.checkCount >= web.detector.maxChecks \/ web.detector.isBlankScreen) =>
     web'.detector.timers \subseteq web.detector.timers
C40_StopsAtMaxChecks == []C40_Bounded /\ [][C40_NothingScheduled]_vars
====
